---- MODULE Spec2Model ----
(***************************************************************************)
(* Trespasser: a 12-sided board with three rotating rings that carry laser *)
(* emitters and blockers.  This module models the solvability oracles      *)
(* (puzzle.js, SimplifiedEvolutionaryGenerator, EvolutionaryPuzzle-        *)
(* Generator), the two evolutionary generators and the constraint-based    *)
(* generator.                                                              *)
(*                                                                         *)
(* Geometry.  Every emitter and blocker sits on a ring of radius 50, 90 or *)
(* 130 at a polar angle that is a multiple of 30 degrees once the ring     *)
(* rotation and SHAPE_ROTATION are added.  An emitter at polar (R, th)     *)
(* fires along d = -(cos th, sin th).  For an obstacle at polar (R', th')  *)
(* the source computes, with b = obstacle - emitter,                       *)
(*     proj  = b . d              = R - R' cos(th' - th)                   *)
(*     perp2 = |b|^2 - proj^2     = R'^2 sin^2(th' - th)                   *)
(* The model keeps these two quantities exactly: proj in thousandths       *)
(* (Cos1000) and perp2 times four (Sin2x4).                                *)
(***************************************************************************)
EXTENDS Integers, Sequences, FiniteSets, TLC

VARIABLES
    oPuzzle, oVerdict, oPc,
    rng,
    sPc, sDifficulty, sPopulation, sNewPopulation, sIndex, sGeneration,
    sBestFitness, sCache, sCalls, sResult,
    ePc, eDifficulty, eHeap, ePopulation, eNewPopulation, eIndex, eGeneration,
    eBest, eConvergence, eCalls, eResult,
    cPc, cArgs, cNumLit, cLitEdges, cResult,
    gPc, gCall, gPuzzle, gIndex,
    solutionSpaceCache, performanceStats, xBuilt, xResult,
    dPc, dPuzzle, dAdded, dSparse, dDense,
    vPc, vLitEdges, vEmitterDistribution, vBlockerDistribution, vCircles, vCircle

(* oracle harness *)
ovars == <<oPuzzle, oVerdict, oPc>>
(* SimplifiedEvolutionaryGenerator: the instance and its generatePuzzle calls *)
svars == <<sPc, sDifficulty, sPopulation, sNewPopulation, sIndex, sGeneration,
           sBestFitness, sCache, sCalls, sResult>>
(* EvolutionaryPuzzleGenerator: the instance and its generatePuzzle calls *)
evars == <<ePc, eDifficulty, eHeap, ePopulation, eNewPopulation, eIndex, eGeneration,
           eBest, eConvergence, eCalls, eResult>>

cvars == <<cPc, cArgs, cNumLit, cLitEdges, cResult>>
gvars == <<gPc, gCall, gPuzzle, gIndex>>
(* advanced generator: the module's solution space cache and counters *)
xvars == <<solutionSpaceCache, performanceStats, xBuilt, xResult>>
(* a caller of the difficulty analyzer *)
dvars == <<dPc, dPuzzle, dAdded, dSparse, dDense>>
(* EvolutionaryPuzzleGenerator: a createRandomChromosome call in progress *)
vvars == <<vPc, vLitEdges, vEmitterDistribution, vBlockerDistribution, vCircles, vCircle>>
vars == <<ovars, rng, svars, evars, cvars, gvars, xvars, dvars, vvars>>

SIDES == 12
INFINITY == 1000000000

RingIdx == {0, 1, 2}
Edges == 0 .. (SIDES - 1)
Slots == 0 .. (SIDES - 1)

(* JavaScript % keeps the sign of the dividend. *)
JsMod(a, n) == IF a >= 0 THEN a % n ELSE -((-a) % n)

Abs(x) == IF x < 0 THEN -x ELSE x

Min2(a, b) == IF a < b THEN a ELSE b
Max2(a, b) == IF a > b THEN a ELSE b

EmptyChromosome ==
    [litEdges |-> <<>>,
     circles |-> <<[emitters |-> <<>>, blockers |-> <<>>],
                   [emitters |-> <<>>, blockers |-> <<>>],
                   [emitters |-> <<>>, blockers |-> <<>>]>>]

SeqToSet(s) == {s[i] : i \in 1 .. Len(s)}

Includes(s, x) == \E i \in 1 .. Len(s) : s[i] = x

EmitterCount(ch) ==
    Len(ch.circles[1].emitters) + Len(ch.circles[2].emitters) + Len(ch.circles[3].emitters)

BlockerCount(ch) ==
    Len(ch.circles[1].blockers) + Len(ch.circles[2].blockers) + Len(ch.circles[3].blockers)

(* 1000 * cos(deg) for deg a multiple of 30 (any sign, any size). *)
CosTable == <<1000, 866, 500, 0, -500, -866, -1000, -866, -500, 0, 500, 866>>

Cos1000(deg) == CosTable[((deg % 360) \div 30) + 1]

(* 4 * sin^2(deg) for deg a multiple of 30: exact. *)
Sin2Table == <<0, 1, 3, 4, 3, 1, 0, 1, 3, 4, 3, 1>>

Sin2x4(deg) == Sin2Table[((deg % 360) \div 30) + 1]

(* Math.sqrt on the values the oracles feed it, rounded down. *)
ISqrt(n) == CHOOSE s \in 0 .. 13 : s * s <= n /\ (s + 1) * (s + 1) > n

(* 1000 * the distance from the board centre to the middle of an edge:     *)
(* RADIUS cos(15 deg) with RADIUS = 180.                                    *)
RADIUS == 180
Apothem1000 == (RADIUS * 965926) \div 1000

RADII == <<50, 90, 130>>

(***************************************************************************)
(* Ray against a disc of squared radius r2 (blocker 12*12, emitter 13*13): *)
(* the body shared by the blocker loop and the emitter loop of every       *)
(* oracle.  Returns the hit parameter t in thousandths, or INFINITY when   *)
(* the loop body `continue`s or the ray misses.                            *)
(***************************************************************************)
DiscHitT(emR, emTheta, obR, obTheta, r2) ==
    LET delta == (obTheta - emTheta) % 360
        proj == 1000 * emR - obR * Cos1000(delta)
        perp2x4 == obR * obR * Sin2x4(delta)
    IN  IF proj <= 0 THEN INFINITY
        ELSE IF perp2x4 < 4 * r2
             THEN proj - 1000 * ISqrt(r2 - (perp2x4 \div 4))
             ELSE INFINITY

(***************************************************************************)
(* Ray against polygon edge i whose middle is at polar angle edgeMid: the  *)
(* ray passes through the centre, so it crosses the edge in front of it in *)
(* its middle (t1 = 1/2, t2 = R + apothem), the edge behind it at          *)
(* t2 = R - apothem < 0, and no other edge inside its segment.             *)
(***************************************************************************)
EdgeHitT(emR, emTheta, edgeMid) ==
    LET beam == (emTheta + 180) % 360
        t2 == IF edgeMid = beam THEN 1000 * emR + Apothem1000
              ELSE IF edgeMid = emTheta % 360 THEN 1000 * emR - Apothem1000
              ELSE -1
    IN  IF t2 > 0 THEN t2 ELSE INFINITY

----------------------------------------------------------------------------
(* puzzle.js *)

PZ_SHAPE_ROTATION == 15

mod360(angle) == ((JsMod(angle, 360)) + 360) % 360

positionToAngle(pos) == (pos * 30 + 15) % 360

(* Math.round(normalized / 30) % 12 *)
angleToPosition(angle) ==
    LET normalized == JsMod(angle - 15 + 360, 360)
    IN  ((2 * normalized + 30) \div 60) % 12

areAtSamePosition(angle1, angle2) ==
    LET pos1 == angleToPosition(angle1)
        pos2 == angleToPosition(angle2)
    IN  pos1 = pos2 \/ pos1 = (pos2 + 6) % 12 \/ pos2 = (pos1 + 6) % 12

(* getPolygonPoints: vertex i at 30 i - 90 + SHAPE_ROTATION degrees; edge  *)
(* i runs from vertex i to vertex i + 1, so its middle is 15 further.      *)
PzEdgeMid(i) == (30 * i - 90 + PZ_SHAPE_ROTATION + 15) % 360

(* The emitters (blockers) of one ring under a rotation, as the flatMap of *)
(* isPuzzleSolvable builds them.                                           *)
PzRingObjects(angles, idx, radius, rotation) ==
    [i \in 1 .. Len(angles) |->
        [idx |-> idx,
         theta |-> (angles[i] + rotation + PZ_SHAPE_ROTATION) % 360,
         radius |-> radius,
         originalAngle |-> angles[i]]]

PzEmitters(puzzle, rotations) ==
    PzRingObjects(puzzle.circles[1].lasers, 0, puzzle.circles[1].radius, rotations[1])
    \o PzRingObjects(puzzle.circles[2].lasers, 1, puzzle.circles[2].radius, rotations[2])
    \o PzRingObjects(puzzle.circles[3].lasers, 2, puzzle.circles[3].radius, rotations[3])

PzBlockers(puzzle, rotations) ==
    PzRingObjects(puzzle.circles[1].blockers, 0, puzzle.circles[1].radius, rotations[1])
    \o PzRingObjects(puzzle.circles[2].blockers, 1, puzzle.circles[2].radius, rotations[2])
    \o PzRingObjects(puzzle.circles[3].blockers, 2, puzzle.circles[3].radius, rotations[3])

(* Whether the blocker loop looks at this blocker for this emitter. *)
PzConsidered(blocker, emitter) ==
    \/ blocker.idx = emitter.idx
       /\ areAtSamePosition(blocker.originalAngle, emitter.originalAngle)
    \/ blocker.idx # emitter.idx

(* The update without its test `t < minT`: the last obstacle tried wins. *)
Nearer_LastWins(best, t, type, obj) ==
    [minT |-> t, hitType |-> type, hitObj |-> obj]

(* One step of `if (t < minT) { minT = t; hitType = ...; hitObj = ... }`. *)
Nearer(best, t, type, obj) ==
    IF t < best.minT THEN [minT |-> t, hitType |-> type, hitObj |-> obj] ELSE best

RECURSIVE PzBlockerLoop(_, _, _, _)
PzBlockerLoop(emitter, blockers, k, best) ==
    IF k > Len(blockers) THEN best
    ELSE LET b == blockers[k]
             t == IF PzConsidered(b, emitter)
                  THEN DiscHitT(emitter.radius, emitter.theta, b.radius, b.theta, 12 * 12)
                  ELSE INFINITY
         IN  PzBlockerLoop(emitter, blockers, k + 1, Nearer(best, t, "blocker", k))

RECURSIVE PzEmitterLoop(_, _, _, _, _)
PzEmitterLoop(emitter, self, emitters, k, best) ==
    IF k > Len(emitters) THEN best
    ELSE LET o == emitters[k]
             t == IF k = self THEN INFINITY
                  ELSE DiscHitT(emitter.radius, emitter.theta, o.radius, o.theta, 13 * 13)
         IN  PzEmitterLoop(emitter, self, emitters, k + 1, Nearer(best, t, "emitter", k))

(* The index of the edge in front of the beam: the one edge of the edge     *)
(* loop with t2 > 0 and 0 <= t1 <= 1.                                       *)
PzFrontEdge(emitter) == ((emitter.theta + 180 - PzEdgeMid(0) + 360) % 360) \div 30

(* The edge loop: of the twelve edges only the one in front of the beam has *)
(* t2 > 0 and 0 <= t1 <= 1, so only that iteration can lower minT.          *)
PzEdgeLoop(emitter, best) ==
    Nearer(best, EdgeHitT(emitter.radius, emitter.theta, PzEdgeMid(PzFrontEdge(emitter))),
           "edge", PzFrontEdge(emitter))

(* The nearest obstacle of emitter number `self`: minT, hitType, hitObj. *)
PzNearest(self, emitters, blockers) ==
    LET emitter == emitters[self]
        b0 == [minT |-> INFINITY, hitType |-> "null", hitObj |-> -1]
        b1 == PzBlockerLoop(emitter, blockers, 1, b0)
        b2 == PzEmitterLoop(emitter, self, emitters, 1, b1)
    IN  PzEdgeLoop(emitter, b2)

(* hit for emitter number self and lit edge litIdx:                         *)
(* hitType === 'edge' && hitObj.i === litIdx, which only the edge in front  *)
(* of the beam can bring about.                                             *)
PzHit(self, emitters, blockers, litIdx) ==
    /\ PzFrontEdge(emitters[self]) = litIdx
    /\ PzNearest(self, emitters, blockers).hitType = "edge"
    /\ PzNearest(self, emitters, blockers).hitObj = litIdx

(* allLit for one rotation vector (degrees). *)
PzAllLit(puzzle, rotations) ==
    \E emitters \in {PzEmitters(puzzle, rotations)},
       blockers \in {PzBlockers(puzzle, rotations)} :
        \A l \in 1 .. Len(puzzle.litEdges) :
            \E e \in 1 .. Len(emitters) :
                PzHit(e, emitters, blockers, puzzle.litEdges[l])

(* The three nested loops return true at the first rotation vector that    *)
(* lights every lit edge and false after the last one.                     *)
isPuzzleSolvable(puzzle) ==
    \E r0 \in 0 .. SIDES - 1, r1 \in 0 .. SIDES - 1, r2 \in 0 .. SIDES - 1 :
        PzAllLit(puzzle, <<r0 * 30, r1 * 30, r2 * 30>>)

----------------------------------------------------------------------------
(* App.jsx: the solver isPuzzleSolvable and the board (getBeamHit,          *)
(* puzzleSolved).  Emitters, blockers and edge lines are built as in        *)
(* puzzle.js, with the same SHAPE_ROTATION, radii and polygon.              *)

(* The solver's blocker test: !sameCircle || sameOrOppositePos, with        *)
(* sameOrOppositePos = Math.abs(((blocker.angle - emitter.angle + 180) %    *)
(* 360) - 180) < 1, blocker.angle = angle + rotation + SHAPE_ROTATION and   *)
(* emitter.angle = angle + rotation + SHAPE_ROTATION + 180.  The test is    *)
(* reached only for a blocker on the emitter's ring, where the rotation     *)
(* cancels.                                                                 *)
AppConsidered(blocker, emitter) ==
    \/ blocker.idx # emitter.idx
    \/ Abs(JsMod((blocker.originalAngle - (emitter.originalAngle + 180)) + 180, 360) - 180) < 1

RECURSIVE AppBlockerLoop(_, _, _, _)
AppBlockerLoop(emitter, blockers, k, best) ==
    IF k > Len(blockers) THEN best
    ELSE LET b == blockers[k]
             t == IF AppConsidered(b, emitter)
                  THEN DiscHitT(emitter.radius, emitter.theta, b.radius, b.theta, 12 * 12)
                  ELSE INFINITY
         IN  AppBlockerLoop(emitter, blockers, k + 1, Nearer(best, t, "blocker", k))

(* The solver's nearest obstacle of emitter number `self`. *)
AppNearest(self, emitters, blockers) ==
    LET emitter == emitters[self]
        b0 == [minT |-> INFINITY, hitType |-> "null", hitObj |-> -1]
        b1 == AppBlockerLoop(emitter, blockers, 1, b0)
        b2 == PzEmitterLoop(emitter, self, emitters, 1, b1)
    IN  PzEdgeLoop(emitter, b2)

AppAllLit(puzzle, rotations) ==
    \E emitters \in {PzEmitters(puzzle, rotations)},
       blockers \in {PzBlockers(puzzle, rotations)} :
        \A l \in 1 .. Len(puzzle.litEdges) :
            \E e \in 1 .. Len(emitters) :
                /\ AppNearest(e, emitters, blockers).hitType = "edge"
                /\ AppNearest(e, emitters, blockers).hitObj = puzzle.litEdges[l]

AppIsPuzzleSolvable(puzzle) ==
    \E r0 \in 0 .. SIDES - 1, r1 \in 0 .. SIDES - 1, r2 \in 0 .. SIDES - 1 :
        AppAllLit(puzzle, <<r0 * 30, r1 * 30, r2 * 30>>)

(* The board's blocker test: a blocker of the emitter's ring when           *)
(* areAtSamePosition holds of the two unrotated angles, and every blocker   *)
(* of another ring.                                                         *)
BoardConsidered(blocker, emitter) ==
    \/ blocker.idx = emitter.idx
       /\ areAtSamePosition(blocker.originalAngle, emitter.originalAngle)
    \/ blocker.idx # emitter.idx

RECURSIVE BoardBlockerLoop(_, _, _, _)
BoardBlockerLoop(emitter, blockers, k, best) ==
    IF k > Len(blockers) THEN best
    ELSE LET b == blockers[k]
             t == IF BoardConsidered(b, emitter)
                  THEN DiscHitT(emitter.radius, emitter.theta, b.radius, b.theta, 12 * 12)
                  ELSE INFINITY
         IN  BoardBlockerLoop(emitter, blockers, k + 1, Nearer(best, t, "blocker", k))

getBeamHit(self, emitters, blockers) ==
    LET emitter == emitters[self]
        b0 == [minT |-> INFINITY, hitType |-> "null", hitObj |-> -1]
        b1 == BoardBlockerLoop(emitter, blockers, 1, b0)
        b2 == PzEmitterLoop(emitter, self, emitters, 1, b1)
    IN  PzEdgeLoop(emitter, b2)

(* litHit and puzzleSolved for the rotations of the board. *)
puzzleSolved(puzzle, rotations) ==
    \E emitters \in {PzEmitters(puzzle, rotations)},
       blockers \in {PzBlockers(puzzle, rotations)} :
        \A l \in 1 .. Len(puzzle.litEdges) :
            \E e \in 1 .. Len(emitters) :
                /\ getBeamHit(e, emitters, blockers).hitType = "edge"
                /\ getBeamHit(e, emitters, blockers).hitObj = puzzle.litEdges[l]

(* Whether the player can reach a rotation state in which the board shows   *)
(* the puzzle solved: the rings turn in steps of 30 degrees.                *)
BoardCanBeSolved(puzzle) ==
    \E r0 \in 0 .. SIDES - 1, r1 \in 0 .. SIDES - 1, r2 \in 0 .. SIDES - 1 :
        puzzleSolved(puzzle, <<r0 * 30, r1 * 30, r2 * 30>>)

----------------------------------------------------------------------------
(* SimplifiedEvolutionaryGenerator: chromosomeToPuzzle and the physics of   *)
(* isChromosomeSolvable.                                                    *)

SIMP_SHAPE_ROTATION == -15

(* chromosomeToPuzzle: slot pos becomes the angle 15 + 30 pos. *)
chromosomeToPuzzle(ch) ==
    [litEdges |-> ch.litEdges,
     circles |-> [i \in 1 .. 3 |->
        [radius |-> RADII[i],
         lasers |-> [k \in 1 .. Len(ch.circles[i].emitters) |->
                        15 + ch.circles[i].emitters[k] * 30],
         blockers |-> [k \in 1 .. Len(ch.circles[i].blockers) |->
                        15 + ch.circles[i].blockers[k] * 30]]]]

(* The polygon of the generator: vertex i at 30 i + SHAPE_ROTATION, so the  *)
(* middle of edge i is at 30 i.                                             *)
SimpEdgeMid(i) == (30 * i + SIMP_SHAPE_ROTATION + 15) % 360

(* rotated = angle + rotations[idx] + SHAPE_ROTATION (not reduced mod 360); *)
(* an emitter stores angle = rotated + 180, a blocker angle = rotated.      *)
SimpRingObjects(angles, idx, radius, rotation, turn) ==
    [i \in 1 .. Len(angles) |->
        [idx |-> idx,
         rotated |-> angles[i] + rotation + SIMP_SHAPE_ROTATION,
         angle |-> angles[i] + rotation + SIMP_SHAPE_ROTATION + turn,
         radius |-> radius]]

SimpEmitters(puzzle, rotations) ==
    SimpRingObjects(puzzle.circles[1].lasers, 0, puzzle.circles[1].radius, rotations[1], 180)
    \o SimpRingObjects(puzzle.circles[2].lasers, 1, puzzle.circles[2].radius, rotations[2], 180)
    \o SimpRingObjects(puzzle.circles[3].lasers, 2, puzzle.circles[3].radius, rotations[3], 180)

SimpBlockers(puzzle, rotations) ==
    SimpRingObjects(puzzle.circles[1].blockers, 0, puzzle.circles[1].radius, rotations[1], 0)
    \o SimpRingObjects(puzzle.circles[2].blockers, 1, puzzle.circles[2].radius, rotations[2], 0)
    \o SimpRingObjects(puzzle.circles[3].blockers, 2, puzzle.circles[3].radius, rotations[3], 0)

(* Math.abs(((blocker.angle - emitter.angle + 180) % 360) - 180) < 1 *)
sameOrOppositePos(blocker, emitter) ==
    Abs(JsMod(blocker.angle - emitter.angle + 180, 360) - 180) < 1

(* if (!sameCircle || sameOrOppositePos) *)
SimpConsidered(blocker, emitter) ==
    (blocker.idx # emitter.idx) \/ sameOrOppositePos(blocker, emitter)

RECURSIVE SimpBlockerLoop(_, _, _, _)
SimpBlockerLoop(emitter, blockers, k, minT) ==
    IF k > Len(blockers) THEN minT
    ELSE LET b == blockers[k]
             t == IF SimpConsidered(b, emitter)
                  THEN DiscHitT(emitter.radius, emitter.rotated, b.radius, b.rotated, 12 * 12)
                  ELSE INFINITY
         IN  SimpBlockerLoop(emitter, blockers, k + 1, Min2(t, minT))

RECURSIVE SimpEmitterLoop(_, _, _, _, _)
SimpEmitterLoop(emitter, self, emitters, k, minT) ==
    IF k > Len(emitters) THEN minT
    ELSE LET o == emitters[k]
             t == IF k = self THEN INFINITY
                  ELSE DiscHitT(emitter.radius, emitter.rotated, o.radius, o.rotated, 13 * 13)
         IN  SimpEmitterLoop(emitter, self, emitters, k + 1, Min2(t, minT))

(* The index of the edge in front of the beam: the one edge of the edge     *)
(* loop with t2 > 0 and 0 <= t1 <= 1.                                       *)
SimpFrontEdge(emitter) == ((emitter.angle - SimpEdgeMid(0)) % 360) \div 30

(* minT when the edge loop starts: the nearest blocker or emitter. *)
SimpObstacleT(self, emitters, blockers) ==
    SimpEmitterLoop(emitters[self], self, emitters, 1,
        SimpBlockerLoop(emitters[self], blockers, 1, INFINITY))

(* hit for emitter number self and lit edge litIdx: the edge loop sets it   *)
(* when the edge in front of the beam is litIdx and its t2 is below minT.   *)
SimpHit(self, emitters, blockers, litIdx) ==
    /\ SimpFrontEdge(emitters[self]) = litIdx
    /\ EdgeHitT(emitters[self].radius, emitters[self].rotated, SimpEdgeMid(litIdx))
           < SimpObstacleT(self, emitters, blockers)

SimpAllLit(puzzle, rotations) ==
    \E emitters \in {SimpEmitters(puzzle, rotations)},
       blockers \in {SimpBlockers(puzzle, rotations)} :
        \A l \in 1 .. Len(puzzle.litEdges) :
            \E e \in 1 .. Len(emitters) :
                SimpHit(e, emitters, blockers, puzzle.litEdges[l])

(* The physics of isChromosomeSolvable, without the cache. *)
SimpPhysics(puzzle) ==
    \E r0 \in 0 .. SIDES - 1, r1 \in 0 .. SIDES - 1, r2 \in 0 .. SIDES - 1 :
        SimpAllLit(puzzle, <<r0 * 30, r1 * 30, r2 * 30>>)

----------------------------------------------------------------------------
(* EvolutionaryPuzzleGenerator: the slot-arithmetic oracle.                 *)

angleIntersectsEdge(beamAngle0, edgeStart0, edgeEnd0) ==
    LET beamAngle == (JsMod(beamAngle0, 360) + 360) % 360
        edgeStart == (JsMod(edgeStart0, 360) + 360) % 360
        edgeEnd == (JsMod(edgeEnd0, 360) + 360) % 360
    IN  IF edgeEnd < edgeStart
        THEN beamAngle >= edgeStart \/ beamAngle <= edgeEnd
        ELSE beamAngle >= edgeStart /\ beamAngle <= edgeEnd

canEmitterHitEdge(emitterPos, edge) ==
    \E rotation \in 0 .. 11 :
        angleIntersectsEdge((((emitterPos + rotation) % 12) * 30 + 180) % 360,
                            edge * 30, (edge + 1) * 30)

heuristicSolvabilityCheckChromosome(ch) ==
    \A l \in 1 .. Len(ch.litEdges) :
        \E c \in 1 .. 3 : \E k \in 1 .. Len(ch.circles[c].emitters) :
            canEmitterHitEdge(ch.circles[c].emitters[k], ch.litEdges[l])

(* emitterCircle is 0-based as in the source; rotations in slots. *)
isBeamBlockedChromosome(emitterCircle, emitterPos, rotations, ch) ==
    LET beamAngle == (emitterPos * 30 + 180) % 360
    IN  \E c \in (emitterCircle + 2) .. 3 :
            \E k \in 1 .. Len(ch.circles[c].blockers) :
                LET rotatedBlockerPos == (ch.circles[c].blockers[k] + rotations[c]) % 12
                    blockerAngle == rotatedBlockerPos * 30
                IN  Abs(JsMod(beamAngle - blockerAngle + 180, 360) - 180) < 15

(* The first edge (lowest index) whose range contains the beam: the loop    *)
(* breaks there.  -1 when no edge does.                                     *)
FirstEdgeOfBeam(beamAngle) ==
    LET hits == {edge \in 0 .. 11 : angleIntersectsEdge(beamAngle, edge * 30, (edge + 1) * 30)}
    IN  IF hits = {} THEN -1 ELSE CHOOSE e \in hits : \A f \in hits : e <= f

EdgeOfBeam == [k \in 0 .. 11 |-> FirstEdgeOfBeam(k * 30)]

(* hitEdges.has(edge): some emitter's beam is credited to the edge (the     *)
(* first edge whose range holds the beam angle) and is not blocked.          *)
hitEdgesHas(ch, rotations, edge) ==
    \E c \in 1 .. 3 : \E k \in 1 .. Len(ch.circles[c].emitters) :
        /\ EdgeOfBeam[((((ch.circles[c].emitters[k] + rotations[c]) % 12) * 30 + 180) % 360)
                      \div 30] = edge
        /\ ~isBeamBlockedChromosome(c - 1, (ch.circles[c].emitters[k] + rotations[c]) % 12,
                                    rotations, ch)

isPuzzleSolvedWithRotationsChromosome(ch, rotations) ==
    \A l \in 1 .. Len(ch.litEdges) : hitEdgesHas(ch, rotations, ch.litEdges[l])

bruteForceSolvabilityCheckChromosome(ch) ==
    \E r1 \in 0 .. 11, r2 \in 0 .. 11, r3 \in 0 .. 11 :
        isPuzzleSolvedWithRotationsChromosome(ch, <<r1, r2, r3>>)

calculateSolvabilityFromChromosome(ch) ==
    heuristicSolvabilityCheckChromosome(ch) /\ bruteForceSolvabilityCheckChromosome(ch)

----------------------------------------------------------------------------
(* The oracle harness: a chromosome is built slot by slot from a bounded    *)
(* family, then the three oracles are applied to it.                        *)
MaxLit == 2
MaxObjects == 2

(* The edges the harness lights and the slots it fills: the first and the   *)
(* last edge, and on every ring two opposite slots and a neighbour.         *)
OEdges == {0, SIDES - 1}
OSlots == {0, 1, 6}

(* puzzle.js takes rings with a radius and angles 15 + 30 pos. *)
PzPuzzleOf(ch) ==
    [litEdges |-> ch.litEdges,
     circles |-> [i \in 1 .. 3 |->
        [radius |-> RADII[i],
         lasers |-> [k \in 1 .. Len(ch.circles[i].emitters) |->
                        positionToAngle(ch.circles[i].emitters[k])],
         blockers |-> [k \in 1 .. Len(ch.circles[i].blockers) |->
                        positionToAngle(ch.circles[i].blockers[k])]]]]

NoVerdict == [pz |-> FALSE, simp |-> FALSE, evo |-> FALSE, app |-> FALSE, board |-> FALSE]

OInit ==
    /\ oPuzzle = EmptyChromosome
    /\ oVerdict = NoVerdict
    /\ oPc = "build"

OAddLit(e) ==
    /\ oPc = "build"
    /\ Len(oPuzzle.litEdges) < MaxLit
    /\ \A i \in 1 .. Len(oPuzzle.litEdges) : oPuzzle.litEdges[i] < e
    /\ oPuzzle' = [oPuzzle EXCEPT !.litEdges = Append(@, e)]
    /\ UNCHANGED <<oVerdict, oPc, rng, svars, evars, cvars, gvars, xvars, dvars, vvars>>

OAddEmitter(c, s) ==
    /\ oPc = "build"
    /\ EmitterCount(oPuzzle) + BlockerCount(oPuzzle) < MaxObjects
    /\ ~Includes(oPuzzle.circles[c].emitters, s)
    /\ ~Includes(oPuzzle.circles[c].blockers, s)
    /\ oPuzzle' = [oPuzzle EXCEPT !.circles[c].emitters = Append(@, s)]
    /\ UNCHANGED <<oVerdict, oPc, rng, svars, evars, cvars, gvars, xvars, dvars, vvars>>

OAddBlocker(c, s) ==
    /\ oPc = "build"
    /\ EmitterCount(oPuzzle) + BlockerCount(oPuzzle) < MaxObjects
    /\ ~Includes(oPuzzle.circles[c].emitters, s)
    /\ ~Includes(oPuzzle.circles[c].blockers, s)
    /\ oPuzzle' = [oPuzzle EXCEPT !.circles[c].blockers = Append(@, s)]
    /\ UNCHANGED <<oVerdict, oPc, rng, svars, evars, cvars, gvars, xvars, dvars, vvars>>

OSolve ==
    /\ oPc = "build"
    /\ oVerdict' = [pz |-> isPuzzleSolvable(PzPuzzleOf(oPuzzle)),
                    simp |-> SimpPhysics(chromosomeToPuzzle(oPuzzle)),
                    evo |-> bruteForceSolvabilityCheckChromosome(oPuzzle),
                    app |-> AppIsPuzzleSolvable(PzPuzzleOf(oPuzzle)),
                    board |-> BoardCanBeSolved(PzPuzzleOf(oPuzzle))]
    /\ oPc' = "done"
    /\ UNCHANGED <<oPuzzle, rng, svars, evars, cvars, gvars, xvars, dvars, vvars>>

ONext ==
    \/ \E e \in OEdges : OAddLit(e)
    \/ \E c \in 1 .. 3, s \in OSlots : OAddEmitter(c, s)
    \/ \E c \in 1 .. 3, s \in OSlots : OAddBlocker(c, s)
    \/ OSolve

----------------------------------------------------------------------------
(* Math.random.  A 16-bit linear congruential generator stands for it:      *)
(* every call steps the state and returns state / 65536.  The operators     *)
(* below take the state after the call.                                     *)
RandomModulus == 65536

NextRandom(r) == (r * 25173 + 13849) % RandomModulus

(* Math.floor(Math.random() * n) *)
RandomInt(r, n) == (r * n) \div RandomModulus

(* Math.random() < percent / 100 *)
RandomBelow(r, percent) == r * 100 < percent * RandomModulus

(* range[0] + Math.floor(Math.random() * (range[1] - range[0] + 1)) *)
RandomRange(r, range) == range[1] + RandomInt(r, range[2] - range[1] + 1)

(* Array helpers. *)
RemoveAt(s, i) == SubSeq(s, 1, i - 1) \o SubSeq(s, i + 1, Len(s))

InsertAscending(s, x) ==
    LET k == Cardinality({i \in 1 .. Len(s) : s[i] <= x})
    IN  SubSeq(s, 1, k) \o <<x>> \o SubSeq(s, k + 1, Len(s))

RECURSIVE SortAscending(_)
SortAscending(s) ==
    IF s = <<>> THEN <<>>
    ELSE InsertAscending(SortAscending(SubSeq(s, 1, Len(s) - 1)), s[Len(s)])

(* [...new Set(list)]: the first occurrence of every value, in order. *)
RECURSIVE Unique(_)
Unique(s) ==
    IF s = <<>> THEN <<>>
    ELSE LET front == Unique(SubSeq(s, 1, Len(s) - 1))
         IN  IF Includes(front, s[Len(s)]) THEN front ELSE Append(front, s[Len(s)])

(* population.sort((a, b) => b.fitness - a.fitness): stable, best first. *)
InsertByFitness(s, x) ==
    LET k == Cardinality({i \in 1 .. Len(s) : s[i].fitness >= x.fitness})
    IN  SubSeq(s, 1, k) \o <<x>> \o SubSeq(s, k + 1, Len(s))

RECURSIVE SortByFitness(_)
SortByFitness(s) ==
    IF s = <<>> THEN <<>>
    ELSE InsertByFitness(SortByFitness(SubSeq(s, 1, Len(s) - 1)), s[Len(s)])

(* A draw that is never repeated: the slot may be taken. *)
DrawNew_AnySlot(r, taken) ==
    [v |-> RandomInt(NextRandom(r), 12), r |-> NextRandom(r)]

(* do { x = Math.floor(Math.random() * 12) } while (taken.includes(x)).     *)
(* The loop does not end when taken holds all twelve values.                *)
RECURSIVE DrawNew(_, _)
DrawNew(r, taken) ==
    LET r1 == NextRandom(r)
        x == RandomInt(r1, 12)
    IN  IF x \in taken THEN DrawNew(r1, taken) ELSE [v |-> x, r |-> r1]

(* while (list.length < n) { x = ...; if (!list.includes(x) &&             *)
(* !other.includes(x)) list.push(x) }                                       *)
RECURSIVE Fill(_, _, _, _)
Fill(r, list, other, n) ==
    IF Len(list) >= n THEN [v |-> list, r |-> r]
    ELSE LET d == DrawNew(r, SeqToSet(list) \cup other)
         IN  Fill(d.r, Append(list, d.v), other, n)

(* while (remaining > 0) { distribution[Math.floor(Math.random() * 3)]++ } *)
RECURSIVE Distribute(_, _, _)
Distribute(r, distribution, remaining) ==
    IF remaining <= 0 THEN [v |-> distribution, r |-> r]
    ELSE LET r1 == NextRandom(r)
             c == RandomInt(r1, 3) + 1
         IN  Distribute(r1, [distribution EXCEPT ![c] = @ + 1], remaining - 1)

(* One ring of createRandomChromosome: emitters first, then blockers. *)
CreateCircle(r, numEmitters, numBlockers) ==
    LET e == Fill(r, <<>>, {}, numEmitters)
        b == Fill(e.r, <<>>, SeqToSet(e.v), numBlockers)
    IN  [v |-> [emitters |-> e.v, blockers |-> b.v], r |-> b.r]

CreateCircles(r, emitterDistribution, blockerDistribution) ==
    LET c1 == CreateCircle(r, emitterDistribution[1], blockerDistribution[1])
        c2 == CreateCircle(c1.r, emitterDistribution[2], blockerDistribution[2])
        c3 == CreateCircle(c2.r, emitterDistribution[3], blockerDistribution[3])
    IN  [v |-> <<c1.v, c2.v, c3.v>>, r |-> c3.r]

(* tournament selection of both generators: the index of the winner. *)
RECURSIVE Tournament(_, _, _, _)
Tournament(r, fitnesses, rounds, best) ==
    IF rounds = 0 THEN [v |-> best, r |-> r]
    ELSE LET r1 == NextRandom(r)
             candidate == RandomInt(r1, Len(fitnesses)) + 1
         IN  Tournament(r1, fitnesses, rounds - 1,
                 IF best = 0 \/ fitnesses[candidate] > fitnesses[best]
                 THEN candidate ELSE best)

----------------------------------------------------------------------------
(* SimplifiedEvolutionaryGenerator.                                         *)

(* populationSize (20 in the source) and maxGenerations (15), scaled down.  *)
SimpPopulationSize == 4
SimpMaxGenerations == 3
MaxSimpCalls == 2

Difficulties == {"easy", "medium", "hard"}

SimpDifficultyConfig(difficulty) ==
    CASE difficulty = "easy" ->
            [litEdges |-> <<3, 4>>, totalEmitters |-> <<4, 6>>, totalBlockers |-> <<1, 2>>]
      [] difficulty = "hard" ->
            [litEdges |-> <<4, 6>>, totalEmitters |-> <<6, 8>>, totalBlockers |-> <<3, 4>>]
      [] OTHER ->
            [litEdges |-> <<3, 5>>, totalEmitters |-> <<5, 7>>, totalBlockers |-> <<2, 3>>]

SimpCreateRandomChromosome(config, r) ==
    LET r1 == NextRandom(r)
        numLitEdges == RandomRange(r1, config.litEdges)
        lit == Fill(r1, <<>>, {}, numLitEdges)
        r2 == NextRandom(lit.r)
        totalEmitters == RandomRange(r2, config.totalEmitters)
        r3 == NextRandom(r2)
        totalBlockers == RandomRange(r3, config.totalBlockers)
        ed == Distribute(r3, <<1, 1, 1>>, totalEmitters - 3)
        bd == Distribute(ed.r, <<0, 0, 0>>, totalBlockers)
        cs == CreateCircles(bd.r, ed.v, bd.v)
    IN  [v |-> [litEdges |-> SortAscending(lit.v), circles |-> cs.v,
                fitness |-> 0, solvable |-> FALSE],
         r |-> cs.r]

RECURSIVE SimpCreateInitialPopulation(_, _, _)
SimpCreateInitialPopulation(config, r, population) ==
    IF Len(population) >= SimpPopulationSize THEN [v |-> population, r |-> r]
    ELSE LET c == SimpCreateRandomChromosome(config, r)
         IN  SimpCreateInitialPopulation(config, c.r, Append(population, c.v))

(* Fitness is kept as an integer: fitness * FitnessScale, exact for every   *)
(* chromosome with at most 12 emitters.  The source computes in doubles,    *)
(* so two fitnesses that are equal here may differ there in the last bit    *)
(* and be sorted the other way round.                                       *)
FitnessScale == 2772000

EmitterCounts(ch) == [i \in 1 .. 3 |-> Len(ch.circles[i].emitters)]

Max3(c) == Max2(c[1], Max2(c[2], c[3]))
Min3(c) == Min2(c[1], Min2(c[2], c[3]))

(* calculateDistributionScore * FitnessScale *)
SimpDistributionScore(ch) ==
    LET counts == EmitterCounts(ch)
        total == counts[1] + counts[2] + counts[3]
    IN  IF total = 0 THEN 0
        ELSE IF \E i \in 1 .. 3 : counts[i] = 0 THEN FitnessScale \div 10
        ELSE FitnessScale - ((Max3(counts) - Min3(counts)) * FitnessScale) \div total

(* calculateVarietyScore * FitnessScale *)
SimpVarietyScore(ch) ==
    LET crowded == Cardinality({i \in 1 .. 3 : Len(ch.circles[i].emitters) > 4})
        allPositions == ch.circles[1].emitters \o ch.circles[2].emitters
                        \o ch.circles[3].emitters
        unique == Cardinality(SeqToSet(allPositions))
    IN  Max2(0, ((FitnessScale \div 5) * (5 - crowded) * unique) \div Len(allPositions))

(* calculateAestheticScore * FitnessScale *)
SimpAestheticScore(ch) ==
    LET lit == ch.litEdges
        oppositePairs == Cardinality({i \in 1 .. Len(lit) : Includes(lit, (lit[i] + 6) % 12)})
        consecutive == Cardinality({i \in 1 .. Len(lit) - 1 : lit[i + 1] = lit[i] + 1})
        twentieths == IF Len(lit) >= 2 THEN 10 + 2 * oppositePairs + consecutive ELSE 10
    IN  (FitnessScale \div 20) * Min2(twentieths, 20)

(* The fitness calculateFitness stores, given the solvability verdict. *)
SimpFitness(ch, solvable) ==
    IF solvable
    THEN (6 * FitnessScale) \div 10 + (2 * SimpDistributionScore(ch)) \div 10
         + SimpVarietyScore(ch) \div 10 + SimpAestheticScore(ch) \div 10
    ELSE (3 * SimpDistributionScore(ch)) \div 10
         + SimpVarietyScore(ch) \div 10 + SimpAestheticScore(ch) \div 10

(* A key that leaves the rings out. *)
CacheKey_LitEdgesOnly(ch) == [litEdges |-> ch.litEdges]

(* The key of solvabilityCache: JSON of litEdges and circles. *)
CacheKey(ch) == [litEdges |-> ch.litEdges, circles |-> ch.circles]

(* isChromosomeSolvable: the cached verdict, or the physics.  An entry of   *)
(* the cache holds the verdict and the number of the generatePuzzle call    *)
(* that stored it.                                                          *)
isChromosomeSolvable(ch, cache) ==
    IF CacheKey(ch) \in DOMAIN cache THEN cache[CacheKey(ch)].result
    ELSE SimpPhysics(chromosomeToPuzzle(ch))

(* this.solvabilityCache.set(cacheKey, result), reached on a miss only. *)
CacheSet(ch, result, call, cache) ==
    IF CacheKey(ch) \in DOMAIN cache THEN cache
    ELSE (CacheKey(ch) :> [result |-> result, call |-> call]) @@ cache

(* A cache that keeps its entries. *)
ClearedCache_Kept(cache) == cache

(* this.solvabilityCache.clear() *)
ClearedCache(cache) == <<>>

SimpEliteCount_None == (SimpPopulationSize * 0) \div 10

(* Math.floor(this.populationSize * this.eliteRatio), eliteRatio = 0.3 *)
SimpEliteCount == (SimpPopulationSize * 3) \div 10

SimpCrossover(parent1, parent2, r) ==
    LET allEdges == Unique(parent1.litEdges \o parent2.litEdges)
        targetSize == Min2(Len(allEdges), Max2(3, Len(parent1.litEdges)))
        r1 == NextRandom(r)
        r2 == NextRandom(r1)
        r3 == NextRandom(r2)
        pick(rr, i) == IF RandomBelow(rr, 50) THEN parent1.circles[i] ELSE parent2.circles[i]
    IN  [v |-> [litEdges |-> SortAscending(SubSeq(allEdges, 1, targetSize)),
                circles |-> <<pick(r1, 1), pick(r2, 2), pick(r3, 3)>>,
                fitness |-> 0, solvable |-> FALSE],
         r |-> r3]

(* The lit-edge part of mutate. *)
SimpMutateLitEdges(lit, r) ==
    LET r1 == NextRandom(r)
    IN  IF ~RandomBelow(r1, 15) THEN [v |-> lit, r |-> r1]
        ELSE LET r2 == NextRandom(r1)
             IN  IF RandomBelow(r2, 50) /\ Len(lit) > 3
                 THEN LET r3 == NextRandom(r2)
                      IN  [v |-> RemoveAt(lit, RandomInt(r3, Len(lit)) + 1), r |-> r3]
                 ELSE IF Len(lit) < 6
                 THEN LET d == DrawNew(r2, SeqToSet(lit))
                      IN  [v |-> SortAscending(Append(lit, d.v)), r |-> d.r]
                 ELSE [v |-> lit, r |-> r2]

(* The emitter part of mutate for one ring. *)
SimpMutateEmitters(circle, r) ==
    LET r1 == NextRandom(r)
        taken == SeqToSet(circle.emitters) \cup SeqToSet(circle.blockers)
    IN  IF ~RandomBelow(r1, 30) THEN [v |-> circle, r |-> r1]
        ELSE LET r2 == NextRandom(r1)
             IN  IF RandomBelow(r2, 70) /\ Len(circle.emitters) > 0
                 THEN LET r3 == NextRandom(r2)
                          index == RandomInt(r3, Len(circle.emitters)) + 1
                          d == DrawNew(r3, taken)
                      IN  [v |-> [circle EXCEPT !.emitters[index] = d.v], r |-> d.r]
                 ELSE LET r3 == NextRandom(r2)
                      IN  IF RandomBelow(r3, 30) /\ Len(circle.emitters) > 1
                          THEN LET r4 == NextRandom(r3)
                                   index == RandomInt(r4, Len(circle.emitters)) + 1
                               IN  [v |-> [circle EXCEPT !.emitters = RemoveAt(@, index)],
                                    r |-> r4]
                          ELSE IF Len(circle.emitters) < 4
                          THEN LET d == DrawNew(r3, taken)
                               IN  [v |-> [circle EXCEPT !.emitters = Append(@, d.v)],
                                    r |-> d.r]
                          ELSE [v |-> circle, r |-> r3]

(* mutate adds a blocker only to a ring with fewer than 3 of them. *)
CanAddBlocker_Always(circle) == TRUE

CanAddBlocker(circle) == Len(circle.blockers) < 3

(* The blocker part of mutate for one ring. *)
SimpMutateBlockers(circle, r) ==
    LET r1 == NextRandom(r)
        taken == SeqToSet(circle.emitters) \cup SeqToSet(circle.blockers)
    IN  IF ~RandomBelow(r1, 15) THEN [v |-> circle, r |-> r1]
        ELSE LET r2 == NextRandom(r1)
             IN  IF RandomBelow(r2, 50) /\ Len(circle.blockers) > 0
                 THEN LET r3 == NextRandom(r2)
                          index == RandomInt(r3, Len(circle.blockers)) + 1
                          d == DrawNew(r3, taken)
                      IN  [v |-> [circle EXCEPT !.blockers[index] = d.v], r |-> d.r]
                 ELSE LET r3 == NextRandom(r2)
                      IN  IF RandomBelow(r3, 50) /\ Len(circle.blockers) > 0
                          THEN LET r4 == NextRandom(r3)
                                   index == RandomInt(r4, Len(circle.blockers)) + 1
                               IN  [v |-> [circle EXCEPT !.blockers = RemoveAt(@, index)],
                                    r |-> r4]
                          ELSE IF CanAddBlocker(circle)
                          THEN LET d == DrawNew(r3, taken)
                               IN  [v |-> [circle EXCEPT !.blockers = Append(@, d.v)],
                                    r |-> d.r]
                          ELSE [v |-> circle, r |-> r3]

SimpMutateCircle(circle, r) ==
    LET e == SimpMutateEmitters(circle, r)
    IN  SimpMutateBlockers(e.v, e.r)

(* The closing loop of mutate: a ring left without emitter gets one. *)
SimpEnsureEmitter(circle, r) ==
    IF Len(circle.emitters) = 0
    THEN LET d == DrawNew(r, SeqToSet(circle.blockers))
         IN  [v |-> [circle EXCEPT !.emitters = Append(@, d.v)], r |-> d.r]
    ELSE [v |-> circle, r |-> r]

SimpMutate(ch, r) ==
    LET lit == SimpMutateLitEdges(ch.litEdges, r)
        c1 == SimpMutateCircle(ch.circles[1], lit.r)
        c2 == SimpMutateCircle(ch.circles[2], c1.r)
        c3 == SimpMutateCircle(ch.circles[3], c2.r)
        f1 == SimpEnsureEmitter(c1.v, c3.r)
        f2 == SimpEnsureEmitter(c2.v, f1.r)
        f3 == SimpEnsureEmitter(c3.v, f2.r)
    IN  [v |-> [ch EXCEPT !.litEdges = lit.v, !.circles = <<f1.v, f2.v, f3.v>>],
         r |-> f3.r]

(* One pass of the offspring loop of evolvePopulation. *)
SimpOffspring(population, r) ==
    LET fitnesses == [i \in 1 .. Len(population) |-> population[i].fitness]
        p1 == Tournament(r, fitnesses, 3, 0)
        p2 == Tournament(p1.r, fitnesses, 3, 0)
        child == SimpCrossover(population[p1.v], population[p2.v], p2.r)
    IN  SimpMutate(child.v, child.r)

(* Seeds of Math.random for the runs explored. *)
NumSeeds == 3
SimpSeeds == {2 * k : k \in 1 .. NumSeeds}

SIdle ==
    /\ sPc = "idle"
    /\ sDifficulty = "medium"
    /\ sPopulation = <<>>
    /\ sNewPopulation = <<>>
    /\ sIndex = 0
    /\ sGeneration = 0
    /\ sBestFitness = 0
    /\ sCache = <<>>
    /\ sCalls = 0
    /\ sResult = [returned |-> FALSE]

SInit ==
    /\ sPc = "ready"
    /\ sDifficulty = "medium"
    /\ sPopulation = <<>>
    /\ sNewPopulation = <<>>
    /\ sIndex = 0
    /\ sGeneration = 0
    /\ sBestFitness = 0
    /\ sCache = <<>>
    /\ sCalls = 0
    /\ sResult = [returned |-> FALSE]

(* generatePuzzle up to the loop: cache cleared, initial population. *)
SStart(difficulty) ==
    /\ \E p \in {SimpCreateInitialPopulation(SimpDifficultyConfig(difficulty), rng, <<>>)} :
           /\ sPopulation' = p.v
           /\ rng' = p.r
    /\ sDifficulty' = difficulty
    /\ sCache' = ClearedCache(sCache)
    /\ sCalls' = sCalls + 1
    /\ sBestFitness' = 0
    /\ sGeneration' = 0
    /\ sIndex' = 1
    /\ sPc' = IF 0 < SimpMaxGenerations THEN "evaluate" ELSE "finish"
    /\ UNCHANGED <<sNewPopulation, sResult, ovars, evars, cvars, gvars, xvars, dvars, vvars>>

(* The first generatePuzzle call on the instance. *)
SGeneratePuzzle(difficulty) ==
    /\ sPc = "ready"
    /\ SStart(difficulty)

(* A later generatePuzzle call on the same instance. *)
SGenerateAgain(difficulty) ==
    /\ sPc = "returned"
    /\ sCalls < MaxSimpCalls
    /\ SStart(difficulty)

(* evaluatePopulation: calculateFitness of one individual. *)
SEvaluate ==
    /\ sPc = "evaluate"
    /\ sIndex <= Len(sPopulation)
    /\ \E ch \in {sPopulation[sIndex]} :
       \E solvable \in {isChromosomeSolvable(ch, sCache)} :
           /\ sPopulation' = [sPopulation EXCEPT ![sIndex] =
                                [ch EXCEPT !.solvable = solvable,
                                           !.fitness = SimpFitness(ch, solvable)]]
           /\ sCache' = CacheSet(ch, solvable, sCalls, sCache)
    /\ sIndex' = sIndex + 1
    /\ UNCHANGED <<sPc, sDifficulty, sNewPopulation, sGeneration, sBestFitness, sCalls, sResult,
                   rng, ovars, evars, cvars, gvars, xvars, dvars, vvars>>

(* The early exit test: currentBest.solvable && currentBest.fitness > 0.7 *)
SimpGoodEnough_LowBar(currentBest) == 10 * currentBest.fitness > 3 * FitnessScale

SimpGoodEnough(currentBest) ==
    currentBest.solvable /\ 10 * currentBest.fitness > 7 * FitnessScale

(* After evaluatePopulation: sort, best fitness, early exit, the elites. *)
SSelect ==
    /\ sPc = "evaluate"
    /\ sIndex > Len(sPopulation)
    /\ \E sorted \in {SortByFitness(sPopulation)} : \E currentBest \in {sorted[1]} :
           /\ sPopulation' = sorted
           /\ sBestFitness' = Max2(sBestFitness, currentBest.fitness)
           /\ IF SimpGoodEnough(currentBest)
              THEN sPc' = "finish" /\ sNewPopulation' = sNewPopulation
              ELSE sPc' = "evolve" /\ sNewPopulation' = SubSeq(sorted, 1, SimpEliteCount)
    /\ UNCHANGED <<sDifficulty, sIndex, sGeneration, sCache, sCalls, sResult, rng, ovars, evars,
                   cvars, gvars, xvars, dvars, vvars>>

(* evolvePopulation: one offspring. *)
SOffspring ==
    /\ sPc = "evolve"
    /\ Len(sNewPopulation) < SimpPopulationSize
    /\ \E o \in {SimpOffspring(sPopulation, rng)} :
           /\ sNewPopulation' = Append(sNewPopulation, o.v)
           /\ rng' = o.r
    /\ UNCHANGED <<sPc, sDifficulty, sPopulation, sIndex, sGeneration, sBestFitness,
                   sCache, sCalls, sResult, ovars, evars, cvars, gvars, xvars, dvars, vvars>>

(* population = evolvePopulation(...); generation++ *)
SNextGeneration ==
    /\ sPc = "evolve"
    /\ Len(sNewPopulation) >= SimpPopulationSize
    /\ sPopulation' = sNewPopulation
    /\ sNewPopulation' = <<>>
    /\ sGeneration' = sGeneration + 1
    /\ sIndex' = 1
    /\ sPc' = IF sGeneration + 1 < SimpMaxGenerations THEN "evaluate" ELSE "finish"
    /\ UNCHANGED <<sDifficulty, sBestFitness, sCache, sCalls, sResult, rng, ovars, evars, cvars,
                   gvars, xvars, dvars, vvars>>

(* After the loop: sort and return the first chromosome. *)
SReturn ==
    /\ sPc = "finish"
    /\ \E sorted \in {SortByFitness(sPopulation)} : \E bestPuzzle \in {sorted[1]} :
           /\ sPopulation' = sorted
           /\ sResult' = [returned |-> TRUE,
                          puzzle |-> chromosomeToPuzzle(bestPuzzle),
                          metadata |-> [fitness |-> bestPuzzle.fitness,
                                        generations |-> sGeneration,
                                        solvable |-> bestPuzzle.solvable]]
    /\ sPc' = "returned"
    /\ UNCHANGED <<sDifficulty, sNewPopulation, sIndex, sGeneration, sBestFitness, sCache, sCalls,
                   rng, ovars, evars, cvars, gvars, xvars, dvars, vvars>>

(* The operators of SimplifiedEvolutionaryGenerator applied one by one, in  *)
(* any order, to a pair of chromosomes: createRandomChromosome, crossover   *)
(* (the offspring takes the second place) and mutate.  sGeneration counts   *)
(* the crossover and mutate steps.                                          *)
MaxOps == 3
NumTopUpSeeds == 12
NumOpsSeeds == 96
OpsSeeds == {(683 * k) % RandomModulus : k \in 1 .. NumOpsSeeds}

OpsInit ==
    /\ sPc = "ops"
    /\ sDifficulty \in Difficulties
    /\ sPopulation = <<>>
    /\ sNewPopulation = <<>>
    /\ sIndex = 0
    /\ sGeneration = 0
    /\ sBestFitness = 0
    /\ sCache = <<>>
    /\ sCalls = 0
    /\ sResult = [returned |-> FALSE]

OpCreate ==
    /\ sPc = "ops"
    /\ Len(sPopulation) < 2
    /\ \E c \in {SimpCreateRandomChromosome(SimpDifficultyConfig(sDifficulty), rng)} :
           /\ sPopulation' = Append(sPopulation, c.v)
           /\ rng' = c.r
    /\ UNCHANGED <<sPc, sDifficulty, sNewPopulation, sIndex, sGeneration, sBestFitness, sCache,
                   sCalls, sResult, ovars, evars, cvars, gvars, xvars, dvars, vvars>>

OpCrossover ==
    /\ sPc = "ops"
    /\ Len(sPopulation) = 2
    /\ sGeneration < MaxOps
    /\ \E o \in {SimpCrossover(sPopulation[1], sPopulation[2], rng)} :
           /\ sPopulation' = [sPopulation EXCEPT ![2] = o.v]
           /\ rng' = o.r
    /\ sGeneration' = sGeneration + 1
    /\ UNCHANGED <<sPc, sDifficulty, sNewPopulation, sIndex, sBestFitness, sCache,
                   sCalls, sResult, ovars, evars, cvars, gvars, xvars, dvars, vvars>>

OpMutate(i) ==
    /\ sPc = "ops"
    /\ i <= Len(sPopulation)
    /\ sGeneration < MaxOps
    /\ \E o \in {SimpMutate(sPopulation[i], rng)} :
           /\ sPopulation' = [sPopulation EXCEPT ![i] = o.v]
           /\ rng' = o.r
    /\ sGeneration' = sGeneration + 1
    /\ UNCHANGED <<sPc, sDifficulty, sNewPopulation, sIndex, sBestFitness, sCache,
                   sCalls, sResult, ovars, evars, cvars, gvars, xvars, dvars, vvars>>

OpsNext ==
    \/ OpCreate
    \/ OpCrossover
    \/ \E i \in 1 .. 2 : OpMutate(i)

SNext ==
    \/ \E d \in Difficulties : SGeneratePuzzle(d)
    \/ SEvaluate
    \/ SSelect
    \/ SOffspring
    \/ SNextGeneration
    \/ SReturn

----------------------------------------------------------------------------
(* EvolutionaryPuzzleGenerator.                                             *)

(* POPULATION_SIZE (60 in the source), MAX_GENERATIONS (50) and the limit   *)
(* of shouldTerminate (10), scaled down.                                    *)
EvoPopulationSize == 5
EvoMaxGenerations == 6
ConvergenceLimit == 2

(* weights are kept times ten. *)
EvoDifficultyConfig(difficulty) ==
    CASE difficulty = "easy" ->
            [litEdgeRange |-> <<3, 4>>, targetRotations |-> <<2, 4>>,
             emitterRange |-> <<4, 6>>, blockerRange |-> <<1, 3>>,
             weights |-> [solvability |-> 5, difficulty |-> 2, distribution |-> 2,
                          aesthetics |-> 1]]
      [] difficulty = "hard" ->
            [litEdgeRange |-> <<4, 6>>, targetRotations |-> <<6, 10>>,
             emitterRange |-> <<6, 9>>, blockerRange |-> <<3, 6>>,
             weights |-> [solvability |-> 4, difficulty |-> 3, distribution |-> 2,
                          aesthetics |-> 1]]
      [] OTHER ->
            [litEdgeRange |-> <<3, 5>>, targetRotations |-> <<4, 7>>,
             emitterRange |-> <<5, 8>>, blockerRange |-> <<2, 4>>,
             weights |-> [solvability |-> 4, difficulty |-> 3, distribution |-> 2,
                          aesthetics |-> 1]]

(* createRandomChromosome: the arrays of a new chromosome.  The lit edges   *)
(* are sorted in the return statement, after every draw.                    *)
EvoCreateRandomChromosome(config, r) ==
    LET r1 == NextRandom(r)
        numLitEdges == RandomRange(r1, config.litEdgeRange)
        lit == Fill(r1, <<>>, {}, numLitEdges)
        r2 == NextRandom(lit.r)
        totalEmitters == RandomRange(r2, config.emitterRange)
        r3 == NextRandom(r2)
        totalBlockers == RandomRange(r3, config.blockerRange)
        ed == Distribute(r3, <<1, 1, 1>>, totalEmitters - 3)
        bd == Distribute(ed.r, <<0, 0, 0>>, totalBlockers)
        cs == CreateCircles(bd.r, ed.v, bd.v)
    IN  [v |-> [litEdges |-> SortAscending(lit.v), circles |-> cs.v], r |-> cs.r]

(* calculateRotationsToHitEdge: INFINITY when no rotation brings the beam   *)
(* within 15 degrees of the edge angle.                                     *)
calculateRotationsToHitEdge(emitterPos, edge) ==
    LET edgeAngle == edge * 30 + 15
        currentBeamAngle == (emitterPos * 30 + 180) % 360
        good == {rotation \in 0 .. 11 :
                    Abs(JsMod(((currentBeamAngle + rotation * 30) % 360) - edgeAngle + 180,
                              360) - 180) < 15}
    IN  IF good = {} THEN INFINITY ELSE CHOOSE m \in good : \A x \in good : m <= x

AllEmitters(ch) ==
    ch.circles[1].emitters \o ch.circles[2].emitters \o ch.circles[3].emitters

RECURSIVE SumSeq(_)
SumSeq(s) == IF s = <<>> THEN 0 ELSE s[1] + SumSeq(Tail(s))

estimateRequiredRotationsChromosome(ch) ==
    LET emitters == AllEmitters(ch)
        minRotations(edge) ==
            LET all == {calculateRotationsToHitEdge(emitters[k], edge) : k \in 1 .. Len(emitters)}
            IN  IF all = {} THEN INFINITY ELSE CHOOSE m \in all : \A x \in all : m <= x
    IN  SumSeq([l \in 1 .. Len(ch.litEdges) |->
                   IF minRotations(ch.litEdges[l]) = INFINITY THEN 3
                   ELSE minRotations(ch.litEdges[l])])

(* Math.exp(-distance * distance / 8) * FitnessScale, rounded, listed by    *)
(* 2 * distance = 1, 2, ...                                                 *)
DifficultyFalloff ==
    <<2686715, 2446281, 2092415, 1681303, 1269114, 899937, 599487, 375149,
       220539, 121793, 63185, 30794, 14099, 6064, 2450, 930, 332, 111, 35, 10,
       3, 1, 0, 0, 0, 0, 0, 0, 0, 0, 0, 0, 0, 0, 0, 0>>

(* calculateDifficultyFromChromosome * FitnessScale *)
calculateDifficultyFromChromosome(ch, config) ==
    LET estimatedRotations == estimateRequiredRotationsChromosome(ch)
        targetRange == config.targetRotations
        distance2 == Abs(2 * estimatedRotations - (targetRange[1] + targetRange[2]))
    IN  IF estimatedRotations >= targetRange[1] /\ estimatedRotations <= targetRange[2]
        THEN FitnessScale
        ELSE IF distance2 = 0 THEN FitnessScale ELSE DifficultyFalloff[distance2]

(* Math.exp(-variance / (totalEmitters * 0.5)) * FitnessScale, rounded,     *)
(* listed by <<totalEmitters, 27 * 3 * variance>>.                          *)
EvennessTable ==
    <<1, 6>> :> 1777352 @@ <<2, 6>> :> 2219644 @@ <<2, 24>> :> 1139603 @@
    <<3, 0>> :> 2772000 @@ <<3, 18>> :> 1777352 @@ <<3, 54>> :> 730691 @@
    <<4, 6>> :> 2480495 @@ <<4, 24>> :> 1777352 @@ <<4, 42>> :> 1273528 @@
    <<4, 96>> :> 468505 @@ <<5, 6>> :> 2536234 @@ <<5, 24>> :> 1942573 @@
    <<5, 42>> :> 1487872 @@ <<5, 78>> :> 872854 @@ <<5, 150>> :> 300396 @@
    <<6, 0>> :> 2772000 @@ <<6, 18>> :> 2219644 @@ <<6, 54>> :> 1423192 @@
    <<6, 72>> :> 1139603 @@ <<6, 126>> :> 585092 @@ <<6, 216>> :> 192608 @@
    <<7, 6>> :> 2601471 @@ <<7, 24>> :> 2150286 @@ <<7, 42>> :> 1777352 @@
    <<7, 78>> :> 1214305 @@ <<7, 96>> :> 1003703 @@ <<7, 114>> :> 829626 @@
    <<7, 186>> :> 387250 @@ <<7, 294>> :> 123497 @@ <<8, 6>> :> 2622200 @@
    <<8, 24>> :> 2219644 @@ <<8, 42>> :> 1878888 @@ <<8, 78>> :> 1346282 @@
    <<8, 96>> :> 1139603 @@ <<8, 114>> :> 964653 @@ <<8, 150>> :> 691204 @@
    <<8, 168>> :> 585092 @@ <<8, 258>> :> 254280 @@ <<9, 0>> :> 2772000 @@
    <<9, 18>> :> 2390305 @@ <<9, 54>> :> 1777352 @@ <<9, 72>> :> 1532617 @@
    <<9, 126>> :> 982684 @@ <<9, 162>> :> 730691 @@ <<9, 216>> :> 468505 @@
    <<9, 234>> :> 403993 @@ <<10, 6>> :> 2651498 @@ <<10, 24>> :> 2320520 @@
    <<10, 42>> :> 2030857 @@ <<10, 78>> :> 1555491 @@ <<10, 96>> :> 1361324 @@
    <<10, 114>> :> 1191395 @@ <<10, 150>> :> 912523 @@ <<10, 168>> :> 798616 @@
    <<10, 186>> :> 698927 @@ <<10, 222>> :> 535328 @@ <<11, 6>> :> 2662232 @@
    <<11, 24>> :> 2358328 @@ <<11, 42>> :> 2089116 @@ <<11, 78>> :> 1639377 @@
    <<11, 96>> :> 1452236 @@ <<11, 114>> :> 1286457 @@
    <<11, 150>> :> 1009513 @@ <<11, 168>> :> 894273 @@ <<11, 186>> :> 792188 @@
    <<11, 222>> :> 621649 @@ <<12, 0>> :> 2772000 @@ <<12, 18>> :> 2480495 @@
    <<12, 54>> :> 1986225 @@ <<12, 72>> :> 1777352 @@ <<12, 126>> :> 1273528 @@
    <<12, 162>> :> 1019762 @@ <<12, 216>> :> 730691 @@ <<12, 234>> :> 653851 @@
    <<13, 6>> :> 2678832 @@ <<13, 24>> :> 2417701 @@ <<13, 42>> :> 2182024 @@
    <<13, 78>> :> 1777352 @@ <<13, 96>> :> 1604096 @@ <<13, 114>> :> 1447729 @@
    <<13, 150>> :> 1179238 @@ <<13, 168>> :> 1064286 @@
    <<13, 258>> :> 637299 @@ <<14, 6>> :> 2685382 @@ <<14, 24>> :> 2441432 @@
    <<14, 42>> :> 2219644 @@ <<14, 78>> :> 1834681 @@ <<14, 96>> :> 1668012 @@
    <<14, 114>> :> 1516484 @@ <<14, 186>> :> 1036078 @@
    <<14, 294>> :> 585092 @@ <<15, 0>> :> 2772000 @@ <<15, 18>> :> 2536234 @@
    <<15, 54>> :> 2123153 @@ <<15, 72>> :> 1942573 @@ <<15, 126>> :> 1487872 @@
    <<15, 216>> :> 953994 @@ <<16, 6>> :> 2696060 @@ <<16, 24>> :> 2480495 @@
    <<16, 42>> :> 2282165 @@ <<16, 78>> :> 1931811 @@ <<16, 150>> :> 1384203 @@
    <<17, 6>> :> 2700469 @@ <<17, 24>> :> 2496760 @@ <<17, 42>> :> 2308418 @@
    <<17, 96>> :> 1824431 @@ <<18, 0>> :> 2772000 @@ <<18, 18>> :> 2574087 @@
    <<18, 54>> :> 2219644 @@ <<19, 6>> :> 2707910 @@ <<19, 24>> :> 2524396 @@
    <<20, 6>> :> 2711079 @@ <<21, 0>> :> 2772000

(* calculateDistributionFitness * FitnessScale *)
calculateDistributionFitness(ch) ==
    LET emitterCounts == EmitterCounts(ch)
        totalEmitters == emitterCounts[1] + emitterCounts[2] + emitterCounts[3]
        emptyCircles == Cardinality({i \in 1 .. 3 : emitterCounts[i] = 0})
        emptyPenalty == (emptyCircles * 3 * FitnessScale) \div 10
        spread == SumSeq([i \in 1 .. 3 |->
                             (3 * emitterCounts[i] - totalEmitters)
                           * (3 * emitterCounts[i] - totalEmitters)])
    IN  IF totalEmitters = 0 THEN 0
        ELSE Max2(0, EvennessTable[<<totalEmitters, spread>>] - emptyPenalty)

(* calculateSymmetryScore * FitnessScale *)
calculateSymmetryScore(ch) ==
    LET lit == SeqToSet(ch.litEdges)
        score(fold) ==
            Cardinality({edge \in lit :
                \E i \in 1 .. fold - 1 : ((edge + i * (12 \div fold)) % 12) \in lit})
        best == Max2(Max2(score(2), score(3)), Max2(score(4), score(6)))
    IN  (best * FitnessScale) \div Len(ch.litEdges)

(* calculateBalanceScore * FitnessScale *)
calculateBalanceScore(ch) ==
    LET circleCounts == [i \in 1 .. 3 |->
                            Len(ch.circles[i].emitters) + Len(ch.circles[i].blockers)]
        totalElements == circleCounts[1] + circleCounts[2] + circleCounts[3]
    IN  IF totalElements = 0 THEN 0
        ELSE FitnessScale
             - ((Max3(circleCounts) - Min3(circleCounts)) * FitnessScale) \div totalElements

(* calculateAestheticsFitness * FitnessScale *)
calculateAestheticsFitness(ch) ==
    (calculateSymmetryScore(ch) + calculateBalanceScore(ch)) \div 2

(* calculateFitness * 10 * FitnessScale *)
calculateFitness(ch, config) ==
    LET solvability == IF calculateSolvabilityFromChromosome(ch) THEN FitnessScale ELSE 0
    IN    config.weights.solvability * solvability
        + config.weights.difficulty * calculateDifficultyFromChromosome(ch, config)
        + config.weights.distribution * calculateDistributionFitness(ch)
        + config.weights.aesthetics * calculateAestheticsFitness(ch)

(* crossover: new arrays built from the arrays of the two parents. *)
(* crossover with the parents' lit edges concatenated, not deduplicated. *)
EvoCrossover_NoSet(parent1, parent2, config, r) ==
    LET allEdges == parent1.litEdges \o parent2.litEdges
        r1 == NextRandom(r)
        targetSize == RandomRange(r1, config.litEdgeRange)
        r2 == NextRandom(r1)
        r3 == NextRandom(r2)
        r4 == NextRandom(r3)
        pick(rr, i) == IF RandomBelow(rr, 50) THEN parent1.circles[i] ELSE parent2.circles[i]
    IN  [v |-> [litEdges |-> SortAscending(SubSeq(allEdges, 1, Min2(targetSize, Len(allEdges)))),
                circles |-> <<pick(r2, 1), pick(r3, 2), pick(r4, 3)>>],
         r |-> r4]

EvoCrossover(parent1, parent2, config, r) ==
    LET allEdges == Unique(parent1.litEdges \o parent2.litEdges)
        r1 == NextRandom(r)
        targetSize == RandomRange(r1, config.litEdgeRange)
        r2 == NextRandom(r1)
        r3 == NextRandom(r2)
        r4 == NextRandom(r3)
        pick(rr, i) == IF RandomBelow(rr, 50) THEN parent1.circles[i] ELSE parent2.circles[i]
    IN  [v |-> [litEdges |-> SortAscending(SubSeq(allEdges, 1, Min2(targetSize, Len(allEdges)))),
                circles |-> <<pick(r2, 1), pick(r3, 2), pick(r4, 3)>>],
         r |-> r4]

(* The lit-edge part of mutate. *)
EvoMutateLitEdges(lit, config, r) ==
    LET r1 == NextRandom(r)
    IN  IF ~RandomBelow(r1, 10) THEN [v |-> lit, r |-> r1]
        ELSE LET r2 == NextRandom(r1)
             IN  IF RandomBelow(r2, 50) /\ Len(lit) > config.litEdgeRange[1]
                 THEN LET r3 == NextRandom(r2)
                      IN  [v |-> RemoveAt(lit, RandomInt(r3, Len(lit)) + 1), r |-> r3]
                 ELSE IF Len(lit) < config.litEdgeRange[2]
                 THEN LET d == DrawNew(r2, SeqToSet(lit))
                      IN  [v |-> SortAscending(Append(lit, d.v)), r |-> d.r]
                 ELSE [v |-> lit, r |-> r2]

(* The emitter part of mutate for one ring.  Nothing bounds the number of   *)
(* emitters; DrawNew does not end on a ring with twelve objects.            *)
EvoMutateEmitters(circle, r) ==
    LET r1 == NextRandom(r)
        taken == SeqToSet(circle.emitters) \cup SeqToSet(circle.blockers)
    IN  IF ~RandomBelow(r1, 15) THEN [v |-> circle, r |-> r1]
        ELSE LET r2 == NextRandom(r1)
             IN  IF RandomBelow(r2, 50) /\ Len(circle.emitters) > 0
                 THEN LET r3 == NextRandom(r2)
                          index == RandomInt(r3, Len(circle.emitters)) + 1
                          d == DrawNew(r3, taken)
                      IN  [v |-> [circle EXCEPT !.emitters[index] = d.v], r |-> d.r]
                 ELSE LET r3 == NextRandom(r2)
                      IN  IF RandomBelow(r3, 50) /\ Len(circle.emitters) > 0
                          THEN LET r4 == NextRandom(r3)
                                   index == RandomInt(r4, Len(circle.emitters)) + 1
                               IN  [v |-> [circle EXCEPT !.emitters = RemoveAt(@, index)],
                                    r |-> r4]
                          ELSE LET d == DrawNew(r3, taken)
                               IN  [v |-> [circle EXCEPT !.emitters = Append(@, d.v)],
                                    r |-> d.r]

(* The blocker part of mutate for one ring. *)
EvoMutateBlockers(circle, r) ==
    LET r1 == NextRandom(r)
        taken == SeqToSet(circle.emitters) \cup SeqToSet(circle.blockers)
    IN  IF ~RandomBelow(r1, 10) THEN [v |-> circle, r |-> r1]
        ELSE LET r2 == NextRandom(r1)
             IN  IF RandomBelow(r2, 50) /\ Len(circle.blockers) > 0
                 THEN LET r3 == NextRandom(r2)
                          index == RandomInt(r3, Len(circle.blockers)) + 1
                          d == DrawNew(r3, taken)
                      IN  [v |-> [circle EXCEPT !.blockers[index] = d.v], r |-> d.r]
                 ELSE LET r3 == NextRandom(r2)
                      IN  IF RandomBelow(r3, 50) /\ Len(circle.blockers) > 0
                          THEN LET r4 == NextRandom(r3)
                                   index == RandomInt(r4, Len(circle.blockers)) + 1
                               IN  [v |-> [circle EXCEPT !.blockers = RemoveAt(@, index)],
                                    r |-> r4]
                          ELSE LET d == DrawNew(r3, taken)
                               IN  [v |-> [circle EXCEPT !.blockers = Append(@, d.v)],
                                    r |-> d.r]

EvoMutateCircle(circle, r) ==
    LET e == EvoMutateEmitters(circle, r)
    IN  EvoMutateBlockers(e.v, e.r)

(* mutate: the arrays of the chromosome after the mutation in place. *)
EvoMutate(ch, config, r) ==
    LET lit == EvoMutateLitEdges(ch.litEdges, config, r)
        c1 == EvoMutateCircle(ch.circles[1], lit.r)
        c2 == EvoMutateCircle(ch.circles[2], c1.r)
        c3 == EvoMutateCircle(ch.circles[3], c2.r)
    IN  [v |-> [litEdges |-> lit.v, circles |-> <<c1.v, c2.v, c3.v>>], r |-> c3.r]

(* while (litEdges.length < litEdgeRange[0]) push a new edge *)
RECURSIVE RepairGrow(_, _, _)
RepairGrow(lit, n, r) ==
    IF Len(lit) >= n THEN [v |-> lit, r |-> r]
    ELSE LET d == DrawNew(r, SeqToSet(lit))
         IN  RepairGrow(Append(lit, d.v), n, d.r)

(* while (litEdges.length > litEdgeRange[1]) splice a random index *)
RECURSIVE RepairShrink(_, _, _)
RepairShrink(lit, n, r) ==
    IF Len(lit) <= n THEN [v |-> lit, r |-> r]
    ELSE LET r1 == NextRandom(r)
         IN  RepairShrink(RemoveAt(lit, RandomInt(r1, Len(lit)) + 1), n, r1)

(* A repair that leaves a ring without emitter as it is. *)
RepairCircle_BlockersOnly(circle, r) ==
    [v |-> [emitters |-> circle.emitters,
            blockers |-> SelectSeq(circle.blockers,
                                   LAMBDA pos : ~Includes(circle.emitters, pos))],
     r |-> r]

(* The ring part of repairChromosome: an emitter for a ring without one,    *)
(* then the blockers that share a slot with an emitter are dropped.         *)
RepairCircle(circle, r) ==
    LET e == IF Len(circle.emitters) = 0
             THEN LET d == DrawNew(r, SeqToSet(circle.blockers))
                  IN  [v |-> Append(circle.emitters, d.v), r |-> d.r]
             ELSE [v |-> circle.emitters, r |-> r]
        keep(pos) == ~Includes(e.v, pos)
    IN  [v |-> [emitters |-> e.v, blockers |-> SelectSeq(circle.blockers, keep)], r |-> e.r]

(* repairChromosome: the arrays of the chromosome after the repair in place. *)
repairChromosome(ch, config, r) ==
    LET grown == RepairGrow(ch.litEdges, config.litEdgeRange[1], r)
        shrunk == RepairShrink(grown.v, config.litEdgeRange[2], grown.r)
        c1 == RepairCircle(ch.circles[1], shrunk.r)
        c2 == RepairCircle(ch.circles[2], c1.r)
        c3 == RepairCircle(ch.circles[3], c2.r)
    IN  [v |-> [litEdges |-> SortAscending(shrunk.v), circles |-> <<c1.v, c2.v, c3.v>>],
         r |-> c3.r]

(* Math.floor(POPULATION_SIZE * ELITE_RATIO), ELITE_RATIO = 0.2 *)
EvoEliteCount == (EvoPopulationSize * 2) \div 10

(* Objects.  An individual is an object {litEdges, circles, fitness}; the    *)
(* spread copy { ...individual } is a new object with the same litEdges and *)
(* circles arrays.  heap[id] holds the arrays, an individual is the record  *)
(* [fitness, body] with body the id of its arrays, and mutate and           *)
(* repairChromosome rewrite heap[body] for every individual that shares it. *)

(* One pass of the offspring loop of evolvePopulation. *)
EvoOffspring(heap, population, config, r) ==
    LET fitnesses == [i \in 1 .. Len(population) |-> population[i].fitness]
        p1 == Tournament(r, fitnesses, 3, 0)
        p2 == Tournament(p1.r, fitnesses, 3, 0)
        parent1 == population[p1.v]
        parent2 == population[p2.v]
        r1 == NextRandom(p2.r)
        crossed == RandomBelow(r1, 80)
        child == EvoCrossover(heap[parent1.body], heap[parent2.body], config, r1)
        heap1 == IF crossed THEN Append(heap, child.v) ELSE heap
        offspring == IF crossed THEN [fitness |-> 0, body |-> Len(heap) + 1]
                     ELSE [fitness |-> parent1.fitness, body |-> parent1.body]
        r2 == NextRandom(IF crossed THEN child.r ELSE r1)
        mutated == IF RandomBelow(r2, 30)
                   THEN EvoMutate(heap1[offspring.body], config, r2)
                   ELSE [v |-> heap1[offspring.body], r |-> r2]
        repaired == repairChromosome(mutated.v, config, mutated.r)
    IN  [heap |-> [heap1 EXCEPT ![offspring.body] = repaired.v],
         v |-> offspring, r |-> repaired.r]

RECURSIVE EvoInitializePopulation(_, _, _)
EvoInitializePopulation(config, r, heap) ==
    IF Len(heap) >= EvoPopulationSize THEN [v |-> heap, r |-> r]
    ELSE LET c == EvoCreateRandomChromosome(config, r)
         IN  EvoInitializePopulation(config, c.r, Append(heap, c.v))

(* shouldTerminate *)
shouldTerminate(convergenceCounter) == convergenceCounter > ConvergenceLimit

(* chromosomeToPuzzle of EvolutionaryPuzzleGenerator: slots are kept. *)
EvoChromosomeToPuzzle(ch) ==
    [litEdges |-> ch.litEdges,
     circles |-> [i \in 1 .. 3 |-> [lasers |-> ch.circles[i].emitters,
                                    blockers |-> ch.circles[i].blockers]]]

(* generatePuzzle calls made on one generator. *)
MaxCalls == 2
EvoSeeds == {3 * k : k \in 1 .. NumSeeds}

NoBest == [null |-> TRUE, fitness |-> 0, body |-> 0]

EInit ==
    /\ ePc = "ready"
    /\ eDifficulty = "medium"
    /\ eHeap = <<>>
    /\ ePopulation = <<>>
    /\ eNewPopulation = <<>>
    /\ eIndex = 0
    /\ eGeneration = 0
    /\ eBest = NoBest
    /\ eConvergence = 0
    /\ eCalls = 0
    /\ eResult = [returned |-> FALSE, thrown |-> FALSE]

(* generatePuzzle up to the loop.  convergenceCounter is a field of the     *)
(* generator and keeps the value the previous call left.                    *)
EGeneratePuzzle(difficulty) ==
    /\ ePc = "ready"
    /\ eCalls < MaxCalls
    /\ \E p \in {EvoInitializePopulation(EvoDifficultyConfig(difficulty), rng, <<>>)} :
           /\ eHeap' = p.v
           /\ ePopulation' = [i \in 1 .. Len(p.v) |-> [fitness |-> 0, body |-> i]]
           /\ rng' = p.r
    /\ eDifficulty' = difficulty
    /\ eNewPopulation' = <<>>
    /\ eBest' = NoBest
    /\ eGeneration' = 0
    /\ eIndex' = 1
    /\ eCalls' = eCalls + 1
    /\ eResult' = [returned |-> FALSE, thrown |-> FALSE]
    /\ ePc' = IF 0 < EvoMaxGenerations /\ ~shouldTerminate(eConvergence)
              THEN "evaluate" ELSE "finish"
    /\ UNCHANGED <<eConvergence, ovars, svars, cvars, gvars, xvars, dvars, vvars>>

(* evaluatePopulation: calculateFitness of one individual. *)
EEvaluate ==
    /\ ePc = "evaluate"
    /\ eIndex <= Len(ePopulation)
    /\ \E f \in {calculateFitness(eHeap[ePopulation[eIndex].body],
                                  EvoDifficultyConfig(eDifficulty))} :
           ePopulation' = [ePopulation EXCEPT ![eIndex].fitness = f]
    /\ eIndex' = eIndex + 1
    /\ UNCHANGED <<ePc, eDifficulty, eHeap, eNewPopulation, eGeneration, eBest,
                   eConvergence, eCalls, eResult, rng, ovars, svars, cvars, gvars, xvars, dvars, vvars>>

(* After evaluatePopulation: sort, bestIndividual = { ...currentBest } or   *)
(* convergenceCounter++, and the elites of evolvePopulation.                *)
ESelect ==
    /\ ePc = "evaluate"
    /\ eIndex > Len(ePopulation)
    /\ \E sorted \in {SortByFitness(ePopulation)} : \E currentBest \in {sorted[1]} :
           /\ ePopulation' = sorted
           /\ IF eBest.null \/ currentBest.fitness > eBest.fitness
              THEN /\ eBest' = [null |-> FALSE, fitness |-> currentBest.fitness,
                                body |-> currentBest.body]
                   /\ eConvergence' = 0
              ELSE /\ eBest' = eBest
                   /\ eConvergence' = eConvergence + 1
           /\ eNewPopulation' = SubSeq(sorted, 1, EvoEliteCount)
    /\ ePc' = "evolve"
    /\ UNCHANGED <<eDifficulty, eHeap, eIndex, eGeneration, eCalls, eResult, rng,
                   ovars, svars, cvars, gvars, xvars, dvars, vvars>>

(* evolvePopulation: one offspring. *)
EOffspring ==
    /\ ePc = "evolve"
    /\ Len(eNewPopulation) < EvoPopulationSize
    /\ \E o \in {EvoOffspring(eHeap, ePopulation, EvoDifficultyConfig(eDifficulty), rng)} :
           /\ eHeap' = o.heap
           /\ eNewPopulation' = Append(eNewPopulation, o.v)
           /\ rng' = o.r
    /\ UNCHANGED <<ePc, eDifficulty, ePopulation, eIndex, eGeneration, eBest,
                   eConvergence, eCalls, eResult, ovars, svars, cvars, gvars, xvars, dvars, vvars>>

(* population.splice(0, population.length, ...newPopulation); generation++ *)
ENextGeneration ==
    /\ ePc = "evolve"
    /\ Len(eNewPopulation) >= EvoPopulationSize
    /\ ePopulation' = eNewPopulation
    /\ eNewPopulation' = <<>>
    /\ eGeneration' = eGeneration + 1
    /\ eIndex' = 1
    /\ ePc' = IF eGeneration + 1 < EvoMaxGenerations /\ ~shouldTerminate(eConvergence)
              THEN "evaluate" ELSE "finish"
    /\ UNCHANGED <<eDifficulty, eHeap, eBest, eConvergence, eCalls, eResult, rng,
                   ovars, svars, cvars, gvars, xvars, dvars, vvars>>

(* After the loop: bestIndividual.fitness.toFixed(3) throws a TypeError     *)
(* when bestIndividual is null; otherwise the puzzle is built from the      *)
(* arrays bestIndividual holds now.                                         *)
EReturn ==
    /\ ePc = "finish"
    /\ eResult' = IF eBest.null
                  THEN [returned |-> FALSE, thrown |-> TRUE]
                  ELSE [returned |-> TRUE, thrown |-> FALSE,
                        puzzle |-> EvoChromosomeToPuzzle(eHeap[eBest.body]),
                        metadata |-> [fitness |-> eBest.fitness,
                                      generations |-> eGeneration]]
    /\ ePc' = "ready"
    /\ UNCHANGED <<eDifficulty, eHeap, ePopulation, eNewPopulation, eIndex, eGeneration,
                   eBest, eConvergence, eCalls, rng, ovars, svars, cvars, gvars, xvars, dvars, vvars>>

ENext ==
    \/ \E d \in Difficulties : EGeneratePuzzle(d)
    \/ EEvaluate
    \/ ESelect
    \/ EOffspring
    \/ ENextGeneration
    \/ EReturn

----------------------------------------------------------------------------
(* generateConstraintBasedPuzzle: the enhanced generator, its validation    *)
(* and the simplified fallback.  Angles are in degrees.                     *)

GEN_SHAPE_ROTATION == 15

(* Math.floor(Math.random() * (maxLit - minLit + 1)) + minLit; \div rounds  *)
(* down as Math.floor does, also for a negative product.                    *)
DrawNumLit(r, minLit, maxLit) == ((r * (maxLit - minLit + 1)) \div RandomModulus) + minLit

(* Math.round(a / b) for a >= 0: halves are rounded up. *)
RoundDiv(a, b) == (2 * a + b) \div (2 * b)

(* SolutionSpaceAnalyzer.initialize: whether the beam of the emitter at     *)
(* slot emitterPos of ring circle (0-based), rotated by rotation slots, is  *)
(* within the ring's tolerance of the centre of the edge.                   *)
Tolerance == <<30, 25, 20>>

(* The test of initialize with the beam direction not reduced modulo 360. *)
Hittable_NoWrap(circle, emitterPos, rotation, edge) ==
    LET actualEmitterAngle == (emitterPos * 30 + rotation * 30 + GEN_SHAPE_ROTATION) % 360
        beamDirection == actualEmitterAngle + 180
        edgeCenter == (edge * 30 + 15 + GEN_SHAPE_ROTATION) % 360
        diff == Abs(beamDirection - edgeCenter)
        angleDiff == IF diff > 180 THEN 360 - diff ELSE diff
    IN  angleDiff <= Tolerance[circle + 1]

Hittable(circle, emitterPos, rotation, edge) ==
    LET actualEmitterAngle == (emitterPos * 30 + rotation * 30 + GEN_SHAPE_ROTATION) % 360
        beamDirection == (actualEmitterAngle + 180) % 360
        edgeCenter == (edge * 30 + 15 + GEN_SHAPE_ROTATION) % 360
        diff == Abs(beamDirection - edgeCenter)
        angleDiff == IF diff > 180 THEN 360 - diff ELSE diff
    IN  angleDiff <= Tolerance[circle + 1]

(* calculateDifficultyMetrics: solutionCount of the edge. *)
SolutionCount(edge) ==
    Cardinality({t \in (0 .. 2) \X (0 .. 11) \X (0 .. 11) : Hittable(t[1], t[2], t[3], edge)})

(* calculateDifficultyMetrics: minRotations of the edge, 12 for an edge no  *)
(* emitter can hit.                                                         *)
MinRotations(edge) ==
    LET rots == {t[3] : t \in {u \in (0 .. 2) \X (0 .. 11) \X (0 .. 11) :
                                     Hittable(u[1], u[2], u[3], edge)}}
    IN  IF rots = {} THEN 12 ELSE CHOOSE m \in rots : \A n \in rots : m <= n

(* getEdgeDifficulty: difficulty = 1 / Math.max(1, solutionCount), kept as  *)
(* the pair <<numerator, denominator>>.                                     *)
getEdgeDifficulty(edge) ==
    [solutionCount |-> SolutionCount(edge),
     minRotations |-> MinRotations(edge),
     difficulty |-> <<1, Max2(1, SolutionCount(edge))>>]

(* findEmitterForEdge: the solutions sorted by rotation; the sort is stable, *)
(* so solution <<circle, position, rotation>> has rank 36 rotation + 12     *)
(* circle + position.                                                       *)
SolutionRank(t) == 36 * t[3] + 12 * t[1] + t[2]

Solutions(edge) ==
    {t \in (0 .. 2) \X (0 .. 11) \X (0 .. 11) : Hittable(t[1], t[2], t[3], edge)}

FirstSolution(set) == CHOOSE t \in set : \A u \in set : SolutionRank(t) <= SolutionRank(u)

(* Weights of selectEdgesWithDifficultyControl, times WeightScale:          *)
(* 1 / (difficulty + 0.1), difficulty + 0.1 and 0.5 + Math.random() * 0.5,  *)
(* with difficulty = 1 / Math.max(1, solutionCount).                        *)
WeightScale == 100

RECURSIVE MixedWeights(_, _)
MixedWeights(r, weights) ==
    IF Len(weights) >= SIDES THEN [v |-> weights, r |-> r]
    ELSE LET r1 == NextRandom(r)
         IN  MixedWeights(r1, Append(weights,
                 WeightScale \div 2 + (r1 * (WeightScale \div 2)) \div RandomModulus))

EdgeWeights(r, targetDifficulty) ==
    LET n(edge) == Max2(1, SolutionCount(edge))
    IN  CASE targetDifficulty = "easy" ->
                [v |-> [j \in 1 .. SIDES |-> (WeightScale * 10 * n(j - 1)) \div (10 + n(j - 1))],
                 r |-> r]
          [] targetDifficulty = "hard" ->
                [v |-> [j \in 1 .. SIDES |-> (WeightScale * (10 + n(j - 1))) \div (10 * n(j - 1))],
                 r |-> r]
          [] OTHER -> MixedWeights(r, <<>>)

(* The inner loop of the weighted selection: the first edge not selected    *)
(* at which random, reduced by the weights so far, is <= 0.                 *)
(* A pick that does not pass over the edges already selected. *)
RECURSIVE PickWeighted_Repeats(_, _, _, _)
PickWeighted_Repeats(weights, selectedEdges, random, j) ==
    IF j >= SIDES THEN -1
    ELSE IF random - weights[j + 1] <= 0 THEN j
    ELSE PickWeighted_Repeats(weights, selectedEdges, random - weights[j + 1], j + 1)

RECURSIVE PickWeighted(_, _, _, _)
PickWeighted(weights, selectedEdges, random, j) ==
    IF j >= SIDES THEN -1
    ELSE IF Includes(selectedEdges, j) THEN PickWeighted(weights, selectedEdges, random, j + 1)
    ELSE IF random - weights[j + 1] <= 0 THEN j
    ELSE PickWeighted(weights, selectedEdges, random - weights[j + 1], j + 1)

RECURSIVE SelectWeighted(_, _, _, _, _)
SelectWeighted(r, weights, selectedEdges, i, numLit) ==
    LET totalWeight == SumSeq([j \in 1 .. SIDES |->
                                  IF Includes(selectedEdges, j - 1) THEN 0 ELSE weights[j]])
        r1 == NextRandom(r)
        picked == PickWeighted(weights, selectedEdges, (r1 * totalWeight) \div RandomModulus, 0)
    IN  IF i >= numLit \/ totalWeight <= 0 THEN [v |-> selectedEdges, r |-> r]
        ELSE SelectWeighted(r1, weights,
                            IF picked >= 0 THEN Append(selectedEdges, picked) ELSE selectedEdges,
                            i + 1, numLit)

selectEdgesWithDifficultyControl(r, minLit, maxLit, targetDifficulty) ==
    LET r1 == NextRandom(r)
        numLit == DrawNumLit(r1, minLit, maxLit)
        weights == EdgeWeights(r1, targetDifficulty)
        selected == SelectWeighted(weights.r, weights.v, <<>>, 0, numLit)
    IN  [v |-> SortAscending(selected.v), r |-> selected.r]

EmptyCircles ==
    << [radius |-> 50, lasers |-> <<>>, blockers |-> <<>>],
       [radius |-> 90, lasers |-> <<>>, blockers |-> <<>>],
       [radius |-> 130, lasers |-> <<>>, blockers |-> <<>>] >>

(* The first loop of placeEmittersWithConstraints: usedPositions holds      *)
(* <<circle, position>> pairs.                                              *)
RECURSIVE PlaceForEdges(_, _, _, _)
PlaceForEdges(litEdges, i, circles, usedPositions) ==
    IF i > Len(litEdges) THEN circles
    ELSE LET solutions == Solutions(litEdges[i])
             free == {t \in solutions : <<t[1], t[2]>> \notin usedPositions}
             bestSolution == IF free # {} THEN FirstSolution(free) ELSE FirstSolution(solutions)
             c == bestSolution[1] + 1
             emitterAngle == bestSolution[2] * 30
         IN  IF solutions = {} THEN PlaceForEdges(litEdges, i + 1, circles, usedPositions)
             ELSE IF Includes(circles[c].lasers, emitterAngle)
             THEN PlaceForEdges(litEdges, i + 1, circles, usedPositions)
             ELSE PlaceForEdges(litEdges, i + 1,
                                [circles EXCEPT ![c].lasers = Append(@, emitterAngle)],
                                usedPositions \cup {<<bestSolution[1], bestSolution[2]>>})

(* The variety loop of placeEmittersWithConstraints. *)
RECURSIVE AddVarietyEmitters(_, _, _)
AddVarietyEmitters(r, circles, n) ==
    IF n <= 0 THEN [v |-> circles, r |-> r]
    ELSE LET r1 == NextRandom(r)
             c == RandomInt(r1, 3) + 1
             r2 == NextRandom(r1)
             angle == RandomInt(r2, 12) * 30
         IN  AddVarietyEmitters(r2,
                 IF Includes(circles[c].lasers, angle) THEN circles
                 ELSE [circles EXCEPT ![c].lasers = Append(@, angle)],
                 n - 1)

(* placeEmittersWithConstraints without the emitter placed for each lit edge. *)
placeEmittersWithConstraints_VarietyOnly(r, litEdges) ==
    AddVarietyEmitters(r, EmptyCircles, Min2(2, (Len(litEdges) * 3) \div 10))

placeEmittersWithConstraints(r, litEdges) ==
    AddVarietyEmitters(r, PlaceForEdges(litEdges, 1, EmptyCircles, {}),
                       Min2(2, (Len(litEdges) * 3) \div 10))

(* The angles 0, 30, ..., 330 not in use on the ring, ascending. *)
AvailableAngles(circle) ==
    SelectSeq([k \in 1 .. 12 |-> (k - 1) * 30],
              LAMBDA angle : ~Includes(circle.lasers, angle) /\ ~Includes(circle.blockers, angle))

(* Scores of findStrategicBlockerPosition in units of 1 / RandomModulus:    *)
(* Math.random(), minus 0.5 for every emitter the angle is opposite to,     *)
(* plus 0.2 for every emitter it is 30 degrees from the opposite of.        *)
ScorePenalty == 32768
ScoreBonus == 13107

BlockerScore(circle, angle, random) ==
    LET angleDiff(k) ==
            Abs(JsMod(angle - ((circle.lasers[k] + 180) % 360) + 180, 360) - 180)
        lasers == 1 .. Len(circle.lasers)
    IN  random
        - ScorePenalty * Cardinality({k \in lasers : angleDiff(k) < 30})
        + ScoreBonus * Cardinality({k \in lasers : angleDiff(k) >= 30 /\ angleDiff(k) < 60})

RECURSIVE ScorePositions(_, _, _, _, _)
ScorePositions(r, circle, available, k, scores) ==
    IF k > Len(available) THEN [v |-> scores, r |-> r]
    ELSE LET r1 == NextRandom(r)
         IN  ScorePositions(r1, circle, available, k + 1,
                            Append(scores, BlockerScore(circle, available[k], r1)))

(* findStrategicBlockerPosition: -1 stands for null.  The sort by score is  *)
(* stable, so the first of the best scores wins.                            *)
findStrategicBlockerPosition(r, circle) ==
    LET available == AvailableAngles(circle)
        scored == ScorePositions(r, circle, available, 1, <<>>)
        best == CHOOSE k \in 1 .. Len(available) :
                    /\ \A j \in 1 .. Len(available) : scored.v[j] <= scored.v[k]
                    /\ \A j \in 1 .. k - 1 : scored.v[j] < scored.v[k]
    IN  IF available = <<>> THEN [v |-> -1, r |-> r]
        ELSE [v |-> available[best], r |-> scored.r]

RECURSIVE AddBlockersToCircle(_, _, _)
AddBlockersToCircle(r, circle, b) ==
    IF b <= 0 THEN [v |-> circle, r |-> r]
    ELSE LET blocker == findStrategicBlockerPosition(r, circle)
         IN  AddBlockersToCircle(blocker.r,
                 IF blocker.v # -1 /\ ~Includes(circle.blockers, blocker.v)
                 THEN [circle EXCEPT !.blockers = Append(@, blocker.v)]
                 ELSE circle,
                 b - 1)

addIntelligentBlockers(r, circles, targetDifficulty) ==
    LET blockersPerCircle == IF targetDifficulty = "hard" THEN 2 ELSE 1
        c1 == AddBlockersToCircle(r, circles[1], blockersPerCircle)
        c2 == AddBlockersToCircle(c1.r, circles[2], blockersPerCircle)
        c3 == AddBlockersToCircle(c2.r, circles[3], blockersPerCircle)
    IN  [v |-> <<c1.v, c2.v, c3.v>>, r |-> c3.r]

generateEnhancedConstraintPuzzle(r, minLit, maxLit, targetDifficulty) ==
    LET litEdges == selectEdgesWithDifficultyControl(r, minLit, maxLit, targetDifficulty)
        circles == placeEmittersWithConstraints(litEdges.r, litEdges.v)
        blocked == addIntelligentBlockers(circles.r, circles.v, targetDifficulty)
    IN  [v |-> [litEdges |-> litEdges.v, circles |-> blocked.v], r |-> blocked.r]

validateEnhancedPuzzle(puzzle) ==
    /\ Len(puzzle.litEdges) # 0
    /\ Len(puzzle.circles) = 3
    /\ \E i \in 1 .. 3 : Len(puzzle.circles[i].lasers) > 0
    /\ \A l \in 1 .. Len(puzzle.litEdges) :
           \E t \in Solutions(puzzle.litEdges[l]) :
               Includes(puzzle.circles[t[1] + 1].lasers, t[2] * 30)

(* generateSimplifiedConstraintPuzzle up to the loops that draw random      *)
(* edges: numLit and the consecutive edges pushed before them.              *)
ConsecutiveEdges(startEdge, n) == [i \in 1 .. Max2(n, 0) |-> (startEdge + i - 1) % SIDES]

SimplifiedStart(r, minLit, maxLit, targetDifficulty) ==
    LET r1 == NextRandom(r)
        numLit == DrawNumLit(r1, minLit, maxLit)
        r2 == NextRandom(r1)
        startEdge == RandomInt(r2, SIDES)
    IN  CASE targetDifficulty = "easy" ->
                [numLit |-> numLit, litEdges |-> ConsecutiveEdges(startEdge, numLit), r |-> r2]
          [] targetDifficulty = "hard" ->
                [numLit |-> numLit, litEdges |-> <<>>, r |-> r1]
          [] OTHER ->
                [numLit |-> numLit, litEdges |-> ConsecutiveEdges(startEdge, numLit \div 2),
                 r |-> r2]

(* Step 3: an emitter aligned with every lit edge, on ring i % 3. *)
RECURSIVE PlaceAligned(_, _, _)
PlaceAligned(litEdges, i, circles) ==
    IF i > Len(litEdges) THEN circles
    ELSE LET c == ((i - 1) % 3) + 1
             edgeAngle == litEdges[i] * 30
             rounded == RoundDiv((edgeAngle + 180 - GEN_SHAPE_ROTATION + 360) % 360, 30) * 30
             emitterAngle == IF rounded >= 360 THEN rounded - 360 ELSE rounded
         IN  PlaceAligned(litEdges, i + 1,
                 IF Includes(circles[c].lasers, emitterAngle) THEN circles
                 ELSE [circles EXCEPT ![c].lasers = Append(@, emitterAngle)])

(* Step 4: one to three more emitters at free angles. *)
RECURSIVE AddAdditionalEmitters(_, _, _)
AddAdditionalEmitters(r, circles, n) ==
    IF n <= 0 THEN [v |-> circles, r |-> r]
    ELSE LET r1 == NextRandom(r)
             c == RandomInt(r1, 3) + 1
             availableAngles == AvailableAngles(circles[c])
             r2 == NextRandom(r1)
         IN  IF Len(availableAngles) > 0
             THEN AddAdditionalEmitters(r2,
                      [circles EXCEPT ![c].lasers =
                          Append(@, availableAngles[RandomInt(r2, Len(availableAngles)) + 1])],
                      n - 1)
             ELSE AddAdditionalEmitters(r1, circles, n - 1)

(* Step 5: the free angles that are 30 degrees or more from the opposite of *)
(* every emitter of the ring.                                               *)
SafeAngles(circle) ==
    SelectSeq(AvailableAngles(circle),
              LAMBDA angle : \A k \in 1 .. Len(circle.lasers) :
                                 Abs(angle - ((circle.lasers[k] + 180) % 360)) >= 30)

RECURSIVE AddSafeBlockers(_, _, _)
AddSafeBlockers(r, circle, n) ==
    IF n <= 0 THEN [v |-> circle, r |-> r]
    ELSE LET availableAngles == SafeAngles(circle)
             r1 == NextRandom(r)
         IN  IF Len(availableAngles) > 0
             THEN AddSafeBlockers(r1,
                      [circle EXCEPT !.blockers =
                          Append(@, availableAngles[RandomInt(r1, Len(availableAngles)) + 1])],
                      n - 1)
             ELSE AddSafeBlockers(r, circle, n - 1)

AddBlockersCarefully(r, circle) ==
    LET r1 == NextRandom(r)
    IN  AddSafeBlockers(r1, circle, RandomInt(r1, 2) + 1)

validateConstraintPuzzle(puzzle) ==
    \A l \in 1 .. Len(puzzle.litEdges) :
        LET edgeTargetAngle == (puzzle.litEdges[l] * 30 + 15 + GEN_SHAPE_ROTATION) % 360
            canHit(emitterAngle, rotation) ==
                LET actualAngle == (emitterAngle + rotation + GEN_SHAPE_ROTATION) % 360
                    firingDirection == (actualAngle + 180) % 360
                    diff == Abs(firingDirection - edgeTargetAngle)
                IN  (IF diff > 180 THEN 360 - diff ELSE diff) <= 25
        IN  \E c \in 1 .. 3 : \E k \in 1 .. Len(puzzle.circles[c].lasers) :
                \E rot \in 0 .. 11 : canHit(puzzle.circles[c].lasers[k], rot * 30)

RECURSIVE FallbackEmitters(_, _, _)
FallbackEmitters(litEdges, i, circles) ==
    IF i > Len(litEdges) THEN circles
    ELSE LET c == ((i - 1) % 3) + 1
             targetAngle == (litEdges[i] * 30 + 15) % 360
             emitterAngle == (targetAngle + 180 - GEN_SHAPE_ROTATION) % 360
             snappedAngle == RoundDiv(emitterAngle, 30) * 30
         IN  FallbackEmitters(litEdges, i + 1,
                              [circles EXCEPT ![c].lasers = Append(@, snappedAngle)])

generateFallbackPuzzle(r, minLit, maxLit) ==
    LET r1 == NextRandom(r)
        numLit == DrawNumLit(r1, minLit, maxLit)
        r2 == NextRandom(r1)
        litEdges == ConsecutiveEdges(RandomInt(r2, SIDES), numLit)
        circles == FallbackEmitters(litEdges, 1, EmptyCircles)
    IN  [v |-> [litEdges |-> litEdges,
                circles |-> [circles EXCEPT ![2].blockers = Append(@, 90)]],
         r |-> r2]

(* generateSimplifiedConstraintPuzzle from the sort of the lit edges on. *)
SimplifiedFinish(r, litEdges0, minLit, maxLit) ==
    LET litEdges == SortAscending(litEdges0)
        aligned == PlaceAligned(litEdges, 1, EmptyCircles)
        r1 == NextRandom(r)
        more == AddAdditionalEmitters(r1, aligned, RandomInt(r1, 3) + 1)
        c1 == AddBlockersCarefully(more.r, more.v[1])
        c2 == AddBlockersCarefully(c1.r, more.v[2])
        c3 == AddBlockersCarefully(c2.r, more.v[3])
        result == [litEdges |-> litEdges, circles |-> <<c1.v, c2.v, c3.v>>]
    IN  IF validateConstraintPuzzle(result) THEN [v |-> result, r |-> c3.r]
        ELSE generateFallbackPuzzle(c3.r, minLit, maxLit)

(* The arguments of the calls explored: the ranges of the application and   *)
(* of the tests, among them testErrorHandling's (-1, 20, 'invalid').        *)
LitRanges == {<<3, 5>>, <<2, 6>>, <<1, 12>>, <<12, 12>>, <<5, 3>>, <<-3, -1>>, <<-1, 20>>}
TargetDifficulties == {"easy", "medium", "hard", "invalid"}
ConsSeeds == {45 * k : k \in 1 .. NumSeeds}

CIdle ==
    /\ cPc = "idle"
    /\ cArgs = <<0, 0, "medium">>
    /\ cNumLit = 0
    /\ cLitEdges = <<>>
    /\ cResult = [returned |-> FALSE]

CInit ==
    /\ cPc = "ready"
    /\ cArgs = <<0, 0, "medium">>
    /\ cNumLit = 0
    /\ cLitEdges = <<>>
    /\ cResult = [returned |-> FALSE]

(* generateConstraintBasedPuzzle: the enhanced puzzle is returned when it   *)
(* passes validateEnhancedPuzzle; otherwise generateSimplifiedConstraintPuzzle *)
(* starts.                                                                  *)
CGenerate(minLit, maxLit, targetDifficulty) ==
    /\ cPc = "ready"
    /\ cArgs' = <<minLit, maxLit, targetDifficulty>>
    /\ \E enhanced \in {generateEnhancedConstraintPuzzle(rng, minLit, maxLit, targetDifficulty)} :
           IF validateEnhancedPuzzle(enhanced.v)
           THEN /\ cResult' = [returned |-> TRUE, puzzle |-> enhanced.v]
                /\ cPc' = "returned"
                /\ rng' = enhanced.r
                /\ UNCHANGED <<cNumLit, cLitEdges>>
           ELSE \E start \in {SimplifiedStart(enhanced.r, minLit, maxLit, targetDifficulty)} :
                /\ cNumLit' = start.numLit
                /\ cLitEdges' = start.litEdges
                /\ rng' = start.r
                /\ cPc' = "selecting"
                /\ UNCHANGED cResult
    /\ UNCHANGED <<ovars, svars, evars, gvars, xvars, dvars, vvars>>

(* One pass of while (litEdges.length < numLit): a random edge, pushed when *)
(* the array does not hold it.                                              *)
CSelectEdge ==
    /\ cPc = "selecting"
    /\ cArgs[3] # "easy"
    /\ Len(cLitEdges) < cNumLit
    /\ \E edge \in {RandomInt(NextRandom(rng), SIDES)} :
           cLitEdges' = IF Includes(cLitEdges, edge) THEN cLitEdges ELSE Append(cLitEdges, edge)
    /\ rng' = NextRandom(rng)
    /\ UNCHANGED <<cPc, cArgs, cNumLit, cResult, ovars, svars, evars, gvars, xvars, dvars, vvars>>

(* The rest of generateSimplifiedConstraintPuzzle, and the return. *)
CFinish ==
    /\ cPc = "selecting"
    /\ cArgs[3] = "easy" \/ Len(cLitEdges) >= cNumLit
    /\ \E puzzle \in {SimplifiedFinish(rng, cLitEdges, cArgs[1], cArgs[2])} :
           /\ cResult' = [returned |-> TRUE, puzzle |-> puzzle.v]
           /\ rng' = puzzle.r
    /\ cPc' = "returned"
    /\ UNCHANGED <<cArgs, cNumLit, cLitEdges, ovars, svars, evars, gvars, xvars, dvars, vvars>>

CNext ==
    \/ \E range \in LitRanges, d \in TargetDifficulties : CGenerate(range[1], range[2], d)
    \/ CSelectEdge
    \/ CFinish

----------------------------------------------------------------------------
(* The random generators: generatePuzzle of puzzle.js and generatePuzzle of *)
(* App.jsx.  Rings hold angles in degrees.                                  *)

(* Step 1 of both: numLit, then distinct random edges, sorted. *)
SelectLitEdges(r, minLit, maxLit) ==
    LET r1 == NextRandom(r)
        numLit == DrawNumLit(r1, minLit, maxLit)
        litEdges == Fill(r1, <<>>, {}, numLit)
    IN  [numLit |-> numLit, v |-> SortAscending(litEdges.v), r |-> litEdges.r]

(* puzzle.js, step 2: while (list.length < n) with a random position that   *)
(* is taken when it and its opposite are free of usedPositions.             *)
RECURSIVE PzPlaceObjects(_, _, _, _)
PzPlaceObjects(r, list, usedPositions, n) ==
    IF Len(list) >= n THEN [v |-> list, used |-> usedPositions, r |-> r]
    ELSE LET r1 == NextRandom(r)
             pos == RandomInt(r1, SIDES)
             oppositePos == (pos + 6) % 12
         IN  IF pos \notin usedPositions /\ oppositePos \notin usedPositions
             THEN PzPlaceObjects(r1, Append(list, positionToAngle(pos)),
                                 usedPositions \cup {pos, oppositePos}, n)
             ELSE PzPlaceObjects(r1, list, usedPositions, n)

PzMakeCircle(r, radius) ==
    LET r1 == NextRandom(r)
        numEmit == RandomInt(r1, 3) + 1
        r2 == NextRandom(r1)
        numBlock == RandomInt(r2, 2) + 1
        lasers == PzPlaceObjects(r2, <<>>, {}, numEmit)
        blockers == PzPlaceObjects(lasers.r, <<>>, lasers.used, numBlock)
    IN  [v |-> [radius |-> radius, lasers |-> lasers.v, blockers |-> blockers.v],
         r |-> blockers.r]

PzMakeCircles(r) ==
    LET c1 == PzMakeCircle(r, 50)
        c2 == PzMakeCircle(c1.r, 90)
        c3 == PzMakeCircle(c2.r, 130)
    IN  [v |-> <<c1.v, c2.v, c3.v>>, r |-> c3.r]

(* puzzle.js, step 3: the positions, with their opposites, of the lasers    *)
(* after the first and of the blockers.                                     *)
PzUsedPositions_LasersOnly(circle) ==
    UNION {{angleToPosition(circle.lasers[k]), (angleToPosition(circle.lasers[k]) + 6) % 12} :
               k \in 2 .. Len(circle.lasers)}

PzUsedPositions(circle) ==
    UNION ({{angleToPosition(circle.lasers[k]), (angleToPosition(circle.lasers[k]) + 6) % 12} :
                k \in 2 .. Len(circle.lasers)}
           \cup
           {{angleToPosition(circle.blockers[k]), (angleToPosition(circle.blockers[k]) + 6) % 12} :
                k \in 1 .. Len(circle.blockers)})

(* One pass of the loop of step 3, for lit edge i (from 0). *)
PzAlign(circles, litEdges, i) ==
    LET cidx == (i % 3) + 1
        targetPos == litEdges[i + 1]
        usedPositions == PzUsedPositions(circles[cidx])
    IN  IF targetPos \notin usedPositions /\ ((targetPos + 6) % 12) \notin usedPositions
        THEN [circles EXCEPT ![cidx].lasers[1] = positionToAngle(targetPos)]
        ELSE circles

(* App.jsx, step 2: while (list.length < n) with a random angle that is     *)
(* taken when usedAngles does not hold it.                                  *)
RECURSIVE AppPlaceObjects(_, _, _, _)
AppPlaceObjects(r, list, usedAngles, n) ==
    IF Len(list) >= n THEN [v |-> list, used |-> usedAngles, r |-> r]
    ELSE LET r1 == NextRandom(r)
             angle == 15 + 30 * RandomInt(r1, SIDES)
         IN  IF angle \notin usedAngles
             THEN AppPlaceObjects(r1, Append(list, angle), usedAngles \cup {angle}, n)
             ELSE AppPlaceObjects(r1, list, usedAngles, n)

AppMakeCircle(r, radius) ==
    LET r1 == NextRandom(r)
        numEmit == RandomInt(r1, 3) + 1
        r2 == NextRandom(r1)
        numBlock == RandomInt(r2, 2) + 1
        lasers == AppPlaceObjects(r2, <<>>, {}, numEmit)
        blockers == AppPlaceObjects(lasers.r, <<>>, lasers.used, numBlock)
    IN  [v |-> [radius |-> radius, lasers |-> lasers.v, blockers |-> blockers.v],
         r |-> blockers.r]

AppMakeCircles(r) ==
    LET c1 == AppMakeCircle(r, 50)
        c2 == AppMakeCircle(c1.r, 90)
        c3 == AppMakeCircle(c2.r, 130)
    IN  [v |-> <<c1.v, c2.v, c3.v>>, r |-> c3.r]

TotalEmitters(circles) == Len(circles[1].lasers) + Len(circles[2].lasers) + Len(circles[3].lasers)

(* An emitter loop that adds nothing. *)
AppTopUp_Nothing(r, circles, totalEmitters, numLit) == [v |-> circles, r |-> r]

(* while (totalEmitters < numLit): a random ring gets an emitter at an      *)
(* angle drawn until it is free on that ring.                               *)
RECURSIVE AppTopUp(_, _, _, _)
AppTopUp(r, circles, totalEmitters, numLit) ==
    IF totalEmitters >= numLit THEN [v |-> circles, r |-> r]
    ELSE LET r1 == NextRandom(r)
             idx == RandomInt(r1, 3) + 1
             used == {(a - 15) \div 30 : a \in SeqToSet(circles[idx].lasers)
                                              \cup SeqToSet(circles[idx].blockers)}
             slot == DrawNew(r1, used)
         IN  AppTopUp(slot.r, [circles EXCEPT ![idx].lasers = Append(@, 15 + 30 * slot.v)],
                      totalEmitters + 1, numLit)

(* One pass of the loop of step 3 of App.jsx, for lit edge i (from 0). *)
AppAlign(circles, litEdges, i) ==
    LET cidx == (i % 3) + 1
        edgeAngle == (360 * litEdges[i + 1]) \div SIDES + 15
        used == SeqToSet(circles[cidx].lasers) \cup SeqToSet(circles[cidx].blockers)
    IN  IF edgeAngle \notin used
        THEN [circles EXCEPT ![cidx].lasers[1] = edgeAngle]
        ELSE circles

(* The arguments of the calls explored: 1 <= minLit <= maxLit <= 12. *)
GenRanges == {<<3, 4>>, <<3, 6>>, <<1, 1>>, <<1, 12>>, <<12, 12>>}
GenSeeds == {7 * k : k \in 1 .. 2 * NumSeeds}
NoPuzzle == [litEdges |-> <<>>, circles |-> <<>>]

(* App.jsx generatePuzzle with the emitter loop taken one pass at a time,   *)
(* the ring of each pass being any result of Math.floor(Math.random() * 3). *)
(* gIndex holds totalEmitters.                                              *)
TopUpRanges == {<<12, 12>>, <<9, 12>>, <<3, 6>>}
TopUpSeeds == {(2731 * k) % RandomModulus : k \in 1 .. NumTopUpSeeds}

(* while (totalEmitters <= numLit): one pass too many. *)
NeedsEmitter_Through(totalEmitters, numLit) == totalEmitters <= numLit

(* while (totalEmitters < numLit) *)
NeedsEmitter(totalEmitters, numLit) == totalEmitters < numLit

(* new Set([...circles[idx].lasers, ...circles[idx].blockers]), as slots. *)
AppUsedSlots(circle) ==
    {(a - 15) \div 30 : a \in SeqToSet(circle.lasers) \cup SeqToSet(circle.blockers)}

TopUpInit ==
    /\ gPc = "topready"
    /\ gCall = [fn |-> "none", minLit |-> 0, maxLit |-> 0]
    /\ gPuzzle = NoPuzzle
    /\ gIndex = 0

(* Steps 1 and 2 up to the emitter loop. *)
TBegin(minLit, maxLit) ==
    /\ gPc = "topready"
    /\ gCall' = [fn |-> "App.jsx", minLit |-> minLit, maxLit |-> maxLit]
    /\ \E litEdges \in {SelectLitEdges(rng, minLit, maxLit)} :
       \E circles \in {AppMakeCircles(litEdges.r)} :
           /\ gPuzzle' = [litEdges |-> litEdges.v, circles |-> circles.v]
           /\ gIndex' = TotalEmitters(circles.v)
           /\ rng' = circles.r
    /\ gPc' = "topup"
    /\ UNCHANGED <<ovars, svars, evars, cvars, xvars, dvars, vvars>>

(* One pass of the emitter loop on ring idx; the do-while ends only when    *)
(* the ring has a free angle.                                               *)
TTopUp(idx) ==
    /\ gPc = "topup"
    /\ NeedsEmitter(gIndex, Len(gPuzzle.litEdges))
    /\ AppUsedSlots(gPuzzle.circles[idx]) # 0 .. 11
    /\ \E slot \in {DrawNew(rng, AppUsedSlots(gPuzzle.circles[idx]))} :
           /\ gPuzzle' = [gPuzzle EXCEPT !.circles[idx].lasers = Append(@, 15 + 30 * slot.v)]
           /\ rng' = slot.r
    /\ gIndex' = gIndex + 1
    /\ UNCHANGED <<gPc, gCall, ovars, svars, evars, cvars, xvars, dvars, vvars>>

(* The emitter loop is left. *)
TDone ==
    /\ gPc = "topup"
    /\ ~NeedsEmitter(gIndex, Len(gPuzzle.litEdges))
    /\ gPc' = "topdone"
    /\ UNCHANGED <<gCall, gPuzzle, gIndex, rng, ovars, svars, evars, cvars, xvars, dvars, vvars>>

TNext ==
    \/ \E range \in TopUpRanges : TBegin(range[1], range[2])
    \/ \E idx \in 1 .. 3 : TTopUp(idx)
    \/ TDone

GIdle ==
    /\ gPc = "idle"
    /\ gCall = [fn |-> "none", minLit |-> 0, maxLit |-> 0]
    /\ gPuzzle = NoPuzzle
    /\ gIndex = 0

GInit ==
    /\ gPc = "ready"
    /\ gCall = [fn |-> "none", minLit |-> 0, maxLit |-> 0]
    /\ gPuzzle = NoPuzzle
    /\ gIndex = 0

(* puzzle.js generatePuzzle, steps 1 and 2. *)
PGenerate(minLit, maxLit) ==
    /\ gPc = "ready"
    /\ gCall' = [fn |-> "puzzle.js", minLit |-> minLit, maxLit |-> maxLit]
    /\ \E litEdges \in {SelectLitEdges(rng, minLit, maxLit)} :
       \E circles \in {PzMakeCircles(litEdges.r)} :
           /\ gPuzzle' = [litEdges |-> litEdges.v, circles |-> circles.v]
           /\ rng' = circles.r
    /\ gIndex' = 0
    /\ gPc' = "placing"
    /\ UNCHANGED <<ovars, svars, evars, cvars, xvars, dvars, vvars>>

(* puzzle.js generatePuzzle, one pass of step 3. *)
PPlace ==
    /\ gPc = "placing"
    /\ gCall.fn = "puzzle.js"
    /\ gIndex < Len(gPuzzle.litEdges)
    /\ gPuzzle' = [gPuzzle EXCEPT !.circles = PzAlign(@, gPuzzle.litEdges, gIndex)]
    /\ gIndex' = gIndex + 1
    /\ UNCHANGED <<gPc, gCall, rng, ovars, svars, evars, cvars, xvars, dvars, vvars>>

(* App.jsx generatePuzzle, steps 1 and 2 with the emitter loop. *)
AGenerate(minLit, maxLit) ==
    /\ gPc = "ready"
    /\ gCall' = [fn |-> "App.jsx", minLit |-> minLit, maxLit |-> maxLit]
    /\ \E litEdges \in {SelectLitEdges(rng, minLit, maxLit)} :
       \E circles \in {AppMakeCircles(litEdges.r)} :
       \E more \in {AppTopUp(circles.r, circles.v, TotalEmitters(circles.v), litEdges.numLit)} :
           /\ gPuzzle' = [litEdges |-> litEdges.v, circles |-> more.v]
           /\ rng' = more.r
    /\ gIndex' = 0
    /\ gPc' = "placing"
    /\ UNCHANGED <<ovars, svars, evars, cvars, xvars, dvars, vvars>>

(* App.jsx generatePuzzle, one pass of step 3. *)
APlace ==
    /\ gPc = "placing"
    /\ gCall.fn = "App.jsx"
    /\ gIndex < Len(gPuzzle.litEdges)
    /\ gPuzzle' = [gPuzzle EXCEPT !.circles = AppAlign(@, gPuzzle.litEdges, gIndex)]
    /\ gIndex' = gIndex + 1
    /\ UNCHANGED <<gPc, gCall, rng, ovars, svars, evars, cvars, xvars, dvars, vvars>>

(* return { litEdges, circles } of both. *)
GReturn ==
    /\ gPc = "placing"
    /\ gIndex >= Len(gPuzzle.litEdges)
    /\ gPc' = "returned"
    /\ UNCHANGED <<gCall, gPuzzle, gIndex, rng, ovars, svars, evars, cvars, xvars, dvars, vvars>>

GNext ==
    \/ \E range \in GenRanges : PGenerate(range[1], range[2])
    \/ PPlace
    \/ \E range \in GenRanges : AGenerate(range[1], range[2])
    \/ APlace
    \/ GReturn

----------------------------------------------------------------------------
(* The solution space of the advanced generator and its module-level cache  *)
(* and performance counters (calculateSolutionSpace, clearCache,            *)
(* resetPerformanceStats).                                                  *)

MaxSpaceCalls == 5
MaxSpaceBuilds == 4

NumTriples == 3 * SIDES * SIDES

(* The loops of calculateSolutionSpace visit circle, then emitterAngle =    *)
(* 15, 45, ..., then rotation = 0, 30, ...; Triple(n) is the n-th visit.    *)
Triple(n) ==
    [circle |-> (n - 1) \div (SIDES * SIDES),
     angle |-> 15 + 30 * (((n - 1) \div SIDES) % SIDES),
     rotation |-> 30 * ((n - 1) % SIDES)]

(* The edge the loop body computes for a triple:                            *)
(* Math.round(((targetAngle - 15) % 360) / 30) % SIDES, with the signed %   *)
(* of JavaScript and Math.round rounding halves up.                         *)
EdgeIndexOf(t) ==
    LET actualAngle == t.angle + t.rotation + GEN_SHAPE_ROTATION
        targetAngle == (actualAngle + 180) % 360
    IN  JsMod(RoundDiv(JsMod(targetAngle - 15, 360), 30), SIDES)

AdvTolerance == <<25, 20, 15>>

advCanEmitterHitEdge(circle, emitterAngle, edgeIndex, rotation) ==
    LET actualEmitterAngle == (emitterAngle + rotation + GEN_SHAPE_ROTATION) % 360
        firingDirection == (actualEmitterAngle + 180) % 360
        edgeTargetAngle == (edgeIndex * 30 + 15 + GEN_SHAPE_ROTATION) % 360
        diff == Abs(firingDirection - edgeTargetAngle)
        angleDiff == IF diff > 180 THEN 360 - diff ELSE diff
    IN  angleDiff <= AdvTolerance[circle + 1]

(* The triples that pass the canEmitterHitEdge test, in loop order. *)
RecordedTriples ==
    SelectSeq([n \in 1 .. NumTriples |-> Triple(n)],
              LAMBDA t : advCanEmitterHitEdge(t.circle, t.angle, EdgeIndexOf(t), t.rotation))

BuildEdgeToEmitters(recorded) ==
    [edge \in 0 .. SIDES - 1 |-> SelectSeq(recorded, LAMBDA t : EdgeIndexOf(t) = edge)]

BuildEmitterToEdge(recorded) ==
    [key \in (0 .. 2) \X {15 + 30 * k : k \in 0 .. SIDES - 1} \X (0 .. SIDES - 1) |->
        LET hits == SelectSeq(recorded,
                              LAMBDA t : /\ t.circle = key[1]
                                         /\ t.angle = key[2]
                                         /\ EdgeIndexOf(t) = key[3])
        IN  [i \in 1 .. Len(hits) |-> hits[i].rotation]]

(* calculateDifficultyMetrics: minMovesToSolve of the edge and the          *)
(* totalSolutions that solutionComplexity = 1 / Math.max(1, totalSolutions) *)
(* is computed from.                                                        *)
calculateDifficultyMetrics(edgeToEmitters) ==
    [edge \in 0 .. SIDES - 1 |->
        LET emitters == edgeToEmitters[edge]
            moves == {emitters[i].rotation \div 30 : i \in 1 .. Len(emitters)}
        IN  [minMovesToSolve |-> IF moves = {} THEN 0
                                 ELSE CHOOSE m \in moves : \A o \in moves : m <= o,
             totalSolutions |-> Len(emitters)]]

(* The object built on a cache miss; id stands for its identity. *)
NewSolutionSpace(id) ==
    LET recorded == RecordedTriples
        edgeToEmitters == BuildEdgeToEmitters(recorded)
    IN  [id |-> id,
         emitterToEdge |-> BuildEmitterToEdge(recorded),
         edgeToEmitters |-> edgeToEmitters,
         difficultyMetrics |-> calculateDifficultyMetrics(edgeToEmitters)]

NoSpace == [id |-> 0]

ZeroStats == [solvabilityChecks |-> 0, solutionSpaceCalculations |-> 0,
              cacheHits |-> 0, cacheMisses |-> 0]

(* solutionSpaceCache.set(cacheKey, solutionSpace): the map has one key. *)
StoreSpace_Dropped(cache, space) == cache

StoreSpace(cache, space) == <<space>>

XInit ==
    /\ solutionSpaceCache = <<>>
    /\ performanceStats = ZeroStats
    /\ xBuilt = 0
    /\ xResult = NoSpace

XIdle == XInit

calculateSolutionSpace ==
    /\ performanceStats.solutionSpaceCalculations < MaxSpaceCalls
    /\ IF solutionSpaceCache # <<>>
       THEN /\ performanceStats' =
                   [performanceStats EXCEPT !.solutionSpaceCalculations = @ + 1,
                                            !.cacheHits = @ + 1]
            /\ xResult' = solutionSpaceCache[1]
            /\ UNCHANGED <<solutionSpaceCache, xBuilt>>
       ELSE /\ xBuilt < MaxSpaceBuilds
            /\ \E solutionSpace \in {NewSolutionSpace(xBuilt + 1)} :
                   /\ solutionSpaceCache' = StoreSpace(solutionSpaceCache, solutionSpace)
                   /\ xResult' = solutionSpace
            /\ performanceStats' =
                   [performanceStats EXCEPT !.solutionSpaceCalculations = @ + 1,
                                            !.cacheMisses = @ + 1]
            /\ xBuilt' = xBuilt + 1
    /\ UNCHANGED <<ovars, rng, svars, evars, cvars, gvars, dvars, vvars>>

clearCache ==
    /\ solutionSpaceCache' = <<>>
    /\ UNCHANGED <<performanceStats, xBuilt, xResult>>
    /\ UNCHANGED <<ovars, rng, svars, evars, cvars, gvars, dvars, vvars>>

resetPerformanceStats ==
    /\ performanceStats' = ZeroStats
    /\ UNCHANGED <<solutionSpaceCache, xBuilt, xResult>>
    /\ UNCHANGED <<ovars, rng, svars, evars, cvars, gvars, dvars, vvars>>

XNext ==
    \/ calculateSolutionSpace
    \/ clearCache
    \/ resetPerformanceStats

----------------------------------------------------------------------------
(* The difficulty analyzer (difficulty-analyzer.js).  Its scores are        *)
(* doubles; here they are exact rationals <<numerator, denominator>> in     *)
(* lowest terms with a positive denominator.                                *)

RECURSIVE Gcd(_, _)
Gcd(a, b) == IF b = 0 THEN a ELSE Gcd(b, a % b)

Rat(n, d) == LET g == Gcd(Abs(n), d) IN <<n \div g, d \div g>>

RatAdd(a, b) ==
    LET g == Gcd(a[2], b[2])
    IN  Rat(a[1] * (b[2] \div g) + b[1] * (a[2] \div g), (a[2] \div g) * b[2])

RatSub(a, b) == RatAdd(a, <<-b[1], b[2]>>)

RatMul(a, b) ==
    LET g1 == Gcd(Abs(a[1]), b[2])
        g2 == Gcd(Abs(b[1]), a[2])
    IN  Rat((a[1] \div g1) * (b[1] \div g2), (a[2] \div g2) * (b[2] \div g1))

RatLeq(a, b) == RatSub(a, b)[1] <= 0

RatMin(a, b) == IF RatLeq(a, b) THEN a ELSE b

RatMax(a, b) == IF RatLeq(a, b) THEN b ELSE a

RatOne == <<1, 1>>

RatZero == <<0, 1>>

DTotalEmitters(puzzle) ==
    SumSeq([c \in 1 .. Len(puzzle.circles) |-> Len(puzzle.circles[c].lasers)])

DTotalBlockers(puzzle) ==
    SumSeq([c \in 1 .. Len(puzzle.circles) |-> Len(puzzle.circles[c].blockers)])

calculateBasicMetrics(puzzle) ==
    LET emitterScore == RatMin(Rat(DTotalEmitters(puzzle), 12), RatOne)
        blockerScore == RatMin(Rat(DTotalBlockers(puzzle), 8), RatOne)
        edgeScore == RatMin(Rat(Len(puzzle.litEdges), 8), RatOne)
    IN  RatMul(RatAdd(RatAdd(emitterScore, blockerScore), edgeScore), <<1, 3>>)

(* Degrees between the direction of the emitter and the centre of the edge; *)
(* rotationNeeded is this over 30.                                          *)
DRotationDegrees(edge, emitterAngle) ==
    LET targetAngle == (edge * 30 + 15) % 360
        currentDirection == (emitterAngle + 180) % 360
    IN  Min2(Abs(targetAngle - currentDirection), 360 - Abs(targetAngle - currentDirection))

DAllEmitters(puzzle) ==
    UNION {SeqToSet(puzzle.circles[c].lasers) : c \in 1 .. Len(puzzle.circles)}

(* minRotationsForEdge stays Infinity without emitters and then counts 3. *)
estimateMinimumRotations(puzzle) ==
    LET emitters == DAllEmitters(puzzle)
        degrees(edge) ==
            IF emitters = {} THEN 90
            ELSE LET all == {DRotationDegrees(edge, a) : a \in emitters}
                 IN  CHOOSE m \in all : \A o \in all : m <= o
        totalRotations ==
            Rat(SumSeq([l \in 1 .. Len(puzzle.litEdges) |-> degrees(puzzle.litEdges[l])]), 30)
    IN  RatMin(totalRotations, <<20, 1>>)

calculateCircleInterdependency(puzzle) ==
    LET n == Len(puzzle.circles)
        pairs == [k \in 1 .. n * n |-> <<((k - 1) \div n) + 1, ((k - 1) % n) + 1>>]
        term(p) ==
            IF p[1] >= p[2] THEN RatZero
            ELSE LET circle1 == puzzle.circles[p[1]]
                     circle2 == puzzle.circles[p[2]]
                     conflicts ==
                         Cardinality({q \in (1 .. Len(circle1.lasers)) \X (1 .. Len(circle2.blockers)) :
                             Abs(JsMod(circle1.lasers[q[1]] - circle2.blockers[q[2]] + 180, 360) - 180) < 45})
                     product == Len(circle1.lasers) * Len(circle2.blockers)
                 IN  Rat(conflicts, IF product = 0 THEN 1 ELSE product)
        RECURSIVE sum(_)
        sum(k) == IF k = 0 THEN RatZero ELSE RatAdd(sum(k - 1), term(pairs[k]))
    IN  RatMin(sum(n * n), RatOne)

calculateSolutionUniqueness(puzzle) ==
    IF Len(puzzle.litEdges) = 0 THEN RatOne
    ELSE RatMin(Rat(DTotalEmitters(puzzle), 3 * Len(puzzle.litEdges)), RatOne)

calculateSolutionComplexity(puzzle) ==
    LET minRotations == estimateMinimumRotations(puzzle)
        interdependency == calculateCircleInterdependency(puzzle)
        uniqueness == calculateSolutionUniqueness(puzzle)
    IN  RatAdd(RatAdd(RatMul(RatMin(RatMul(minRotations, <<1, 10>>), RatOne), <<4, 10>>),
                      RatMul(interdependency, <<4, 10>>)),
               RatMul(RatSub(RatOne, uniqueness), <<2, 10>>))

calculateWorkingMemoryLoad(puzzle) ==
    LET itemsToTrack == RatAdd(RatAdd(<<Len(puzzle.litEdges), 1>>,
                                      Rat(DTotalEmitters(puzzle) * 5, 10)),
                               Rat(DTotalBlockers(puzzle) * 3, 10))
    IN  RatMin(RatMul(itemsToTrack, <<1, 9>>), RatOne)

hasRotationalSymmetry(litEdges, fold) ==
    \A l \in 1 .. Len(litEdges) :
        \E i \in 1 .. fold - 1 :
            ((litEdges[l] + ((i * 12) \div fold)) % 12) \in SeqToSet(litEdges)

calculateSymmetryFactor(puzzle) ==
    LET folds == {fold \in {2, 3, 4, 6} : hasRotationalSymmetry(puzzle.litEdges, fold)}
    IN  IF folds = {} THEN RatZero
        ELSE Rat(1, CHOOSE fold \in folds : \A o \in folds : fold <= o)

calculateVisualComplexity(puzzle) ==
    LET totalElements == Len(puzzle.litEdges) + DTotalEmitters(puzzle) + DTotalBlockers(puzzle)
        symmetryFactor == calculateSymmetryFactor(puzzle)
        baseComplexity == RatMin(Rat(totalElements, 20), RatOne)
    IN  RatMul(baseComplexity, RatSub(RatOne, RatMul(symmetryFactor, <<3, 10>>)))

checkForCommonPatterns(puzzle) ==
    LET lit == SeqToSet(puzzle.litEdges)
        consecutiveGroups ==
            Cardinality({i \in 0 .. 11 : i \in lit /\ (i = 11 \/ (i + 1) \notin lit)})
        oppositePairs ==
            Cardinality({l \in 1 .. Len(puzzle.litEdges) : ((puzzle.litEdges[l] + 6) % 12) \in lit})
        groupScore == IF consecutiveGroups <= 2 THEN <<3, 10>> ELSE RatZero
        pairScore == IF oppositePairs >= 2 THEN <<3, 10>> ELSE RatZero
    IN  RatMin(RatAdd(groupScore, pairScore), RatOne)

RECURSIVE DSort(_)
DSort(s) ==
    IF s = <<>> THEN <<>>
    ELSE LET rest == DSort(Tail(s))
         IN  SelectSeq(rest, LAMBDA x : x < Head(s)) \o <<Head(s)>>
                 \o SelectSeq(rest, LAMBDA x : x >= Head(s))

calculateSpacingRegularity(puzzle) ==
    IF Len(puzzle.litEdges) < 2 THEN RatOne
    ELSE LET sortedEdges == DSort(puzzle.litEdges)
             n == Len(sortedEdges)
             spacings == [i \in 1 .. n |->
                             LET next == sortedEdges[(i % n) + 1]
                             IN  IF next > sortedEdges[i] THEN next - sortedEdges[i]
                                 ELSE (12 - sortedEdges[i]) + next]
             total == SumSeq(spacings)
             (* sum of (s - mean)^2 with mean = total / n, times n^2 *)
             squares == SumSeq([i \in 1 .. n |-> (spacings[i] * n - total) * (spacings[i] * n - total)])
             variance == Rat(squares, n * n * n)
         IN  RatMax(RatZero, RatSub(RatOne, RatMul(variance, <<1, 10>>)))

calculatePatternDifficulty(puzzle) ==
    RatAdd(RatMul(RatSub(RatOne, checkForCommonPatterns(puzzle)), <<6, 10>>),
           RatMul(RatSub(RatOne, calculateSpacingRegularity(puzzle)), <<4, 10>>))

calculateCognitiveLoad(puzzle) ==
    RatMul(RatAdd(RatAdd(calculateWorkingMemoryLoad(puzzle), calculateVisualComplexity(puzzle)),
                  calculatePatternDifficulty(puzzle)),
           <<1, 3>>)

calculateVisualBalance(puzzle) ==
    LET emitterDistribution == [c \in 1 .. 3 |-> Len(puzzle.circles[c].lasers)]
        blockerDistribution == [c \in 1 .. 3 |-> Len(puzzle.circles[c].blockers)]
        emitterBalance == RatSub(RatOne, Rat(Max3(emitterDistribution) - Min3(emitterDistribution), 5))
        blockerBalance == RatSub(RatOne, Rat(Max3(blockerDistribution) - Min3(blockerDistribution), 3))
    IN  RatMax(RatZero, RatMul(RatAdd(emitterBalance, blockerBalance), <<1, 2>>))

(* With no element on the rings the efficiency numLitEdges / 0 is Infinity  *)
(* (the puzzles analysed here have a lit edge) and the elegance is 1.       *)
calculateElegance(puzzle) ==
    LET totalElements == DTotalEmitters(puzzle) + DTotalBlockers(puzzle)
        numLitEdges == Len(puzzle.litEdges)
    IN  IF totalElements = 0 THEN RatOne
        ELSE LET efficiency == Rat(numLitEdges, totalElements)
                 complexityPenalty == RatMax(RatZero, Rat(totalElements - 15, 10))
             IN  RatMax(RatZero, RatMin(RatOne, RatSub(efficiency, complexityPenalty)))

calculateAestheticScore(puzzle) ==
    RatMul(RatAdd(RatAdd(calculateSymmetryFactor(puzzle), calculateVisualBalance(puzzle)),
                  calculateElegance(puzzle)),
           <<1, 3>>)

analyzePuzzleDifficulty(puzzle) ==
    LET basicMetrics == calculateBasicMetrics(puzzle)
        solutionComplexity == calculateSolutionComplexity(puzzle)
        cognitiveLoad == calculateCognitiveLoad(puzzle)
        aestheticScore == calculateAestheticScore(puzzle)
        overallDifficulty ==
            RatAdd(RatAdd(RatAdd(RatMul(basicMetrics, <<3, 10>>),
                                 RatMul(solutionComplexity, <<4, 10>>)),
                          RatMul(cognitiveLoad, <<2, 10>>)),
                   RatMul(RatSub(RatOne, aestheticScore), <<1, 10>>))
    IN  [basicMetrics |-> basicMetrics,
         solutionComplexity |-> solutionComplexity,
         cognitiveLoad |-> cognitiveLoad,
         aestheticScore |-> aestheticScore,
         overallDifficulty |-> overallDifficulty,
         difficultyLevel |-> IF ~RatLeq(<<3, 10>>, overallDifficulty) THEN "easy"
                             ELSE IF ~RatLeq(<<7, 10>>, overallDifficulty) THEN "medium"
                             ELSE "hard"]

(* A caller analyses a puzzle, puts further emitters and blockers on free   *)
(* slots of its rings and analyses the denser puzzle.                       *)
MaxAdded == 2

DLitEdges == {<<0>>, <<0, 6>>, <<2, 3, 7>>, <<1, 4, 7, 10>>}
DLasers == {<<15>>, <<195>>, <<15, 105>>}
DBlockers == {<<>>, <<45>>}
DAngles == {15, 45, 105, 195}

NoAnalysis == [difficultyLevel |-> "none"]

DIdle ==
    /\ dPc = "idle"
    /\ dPuzzle = NoPuzzle
    /\ dAdded = 0
    /\ dSparse = NoAnalysis
    /\ dDense = NoAnalysis

DInit ==
    /\ dPc = "sparse"
    /\ \E litEdges \in DLitEdges, l1 \in DLasers, l2 \in {<<>>, <<75>>}, b2 \in DBlockers :
           dPuzzle = [litEdges |-> litEdges,
                      circles |-> <<[lasers |-> l1, blockers |-> <<>>],
                                    [lasers |-> l2, blockers |-> b2],
                                    [lasers |-> <<>>, blockers |-> b2]>>]
    /\ dAdded = 0
    /\ dSparse = NoAnalysis
    /\ dDense = NoAnalysis

DAnalyzeSparse ==
    /\ dPc = "sparse"
    /\ dSparse' = analyzePuzzleDifficulty(dPuzzle)
    /\ dPc' = "densify"
    /\ UNCHANGED <<dPuzzle, dAdded, dDense>>
    /\ UNCHANGED <<ovars, rng, svars, evars, cvars, gvars, xvars, vvars>>

DFree(circle, angle) ==
    /\ angle \notin SeqToSet(circle.lasers)
    /\ angle \notin SeqToSet(circle.blockers)

DAddEmitter(c, angle) ==
    /\ dPc = "densify"
    /\ dAdded < MaxAdded
    /\ DFree(dPuzzle.circles[c], angle)
    /\ dPuzzle' = [dPuzzle EXCEPT !.circles[c].lasers = Append(@, angle)]
    /\ dAdded' = dAdded + 1
    /\ UNCHANGED <<dPc, dSparse, dDense>>
    /\ UNCHANGED <<ovars, rng, svars, evars, cvars, gvars, xvars, vvars>>

DAddBlocker(c, angle) ==
    /\ dPc = "densify"
    /\ dAdded < MaxAdded
    /\ DFree(dPuzzle.circles[c], angle)
    /\ dPuzzle' = [dPuzzle EXCEPT !.circles[c].blockers = Append(@, angle)]
    /\ dAdded' = dAdded + 1
    /\ UNCHANGED <<dPc, dSparse, dDense>>
    /\ UNCHANGED <<ovars, rng, svars, evars, cvars, gvars, xvars, vvars>>

DAnalyzeDense ==
    /\ dPc = "densify"
    /\ dAdded > 0
    /\ dDense' = analyzePuzzleDifficulty(dPuzzle)
    /\ dPc' = "compared"
    /\ UNCHANGED <<dPuzzle, dAdded, dSparse>>
    /\ UNCHANGED <<ovars, rng, svars, evars, cvars, gvars, xvars, vvars>>

DNext ==
    \/ DAnalyzeSparse
    \/ \E c \in 1 .. 3, angle \in DAngles : DAddEmitter(c, angle)
    \/ \E c \in 1 .. 3, angle \in DAngles : DAddBlocker(c, angle)
    \/ DAnalyzeDense

----------------------------------------------------------------------------
(* createRandomChromosome of EvolutionaryPuzzleGenerator, one loop          *)
(* iteration at a time.  The number of lit edges, the totals and the two    *)
(* results of distributeElements are any values Math.random can produce;    *)
(* the slots are drawn with rng.                                            *)

(* distributeElements(total, 3, minPerContainer): every container may be    *)
(* drawn in every iteration, so every distribution of the total over the    *)
(* three rings with at least minPerContainer each can come out.             *)
Distributions(total, minPerContainer) ==
    {d \in (minPerContainer .. total) \X (minPerContainer .. total) \X (minPerContainer .. total) :
        d[1] + d[2] + d[3] = total}

PlaceSeeds == {11 * k : k \in 1 .. NumSeeds}

NoCircle == [emitters |-> <<>>, blockers |-> <<>>]

VIdle ==
    /\ vPc = "idle"
    /\ vLitEdges = <<>>
    /\ vEmitterDistribution = <<0, 0, 0>>
    /\ vBlockerDistribution = <<0, 0, 0>>
    /\ vCircles = <<>>
    /\ vCircle = NoCircle

VInit ==
    /\ vPc = "ready"
    /\ vLitEdges = <<>>
    /\ vEmitterDistribution = <<0, 0, 0>>
    /\ vBlockerDistribution = <<0, 0, 0>>
    /\ vCircles = <<>>
    /\ vCircle = NoCircle

(* The slots of the ring under construction that hold an emitter or a blocker. *)
VTaken == SeqToSet(vCircle.emitters) \cup SeqToSet(vCircle.blockers)

(* createRandomChromosome up to the loop over the rings. *)
VBegin(difficulty, totalEmitters, totalBlockers, emitterDistribution, blockerDistribution) ==
    /\ vPc = "ready"
    /\ LET config == EvoDifficultyConfig(difficulty)
       IN  /\ totalEmitters \in config.emitterRange[1] .. config.emitterRange[2]
           /\ totalBlockers \in config.blockerRange[1] .. config.blockerRange[2]
           /\ \E lit \in {Fill(NextRandom(rng), <<>>, {},
                               RandomRange(NextRandom(rng), config.litEdgeRange))} :
                  /\ vLitEdges' = lit.v
                  /\ rng' = lit.r
    /\ emitterDistribution \in Distributions(totalEmitters, 1)
    /\ blockerDistribution \in Distributions(totalBlockers, 0)
    /\ vEmitterDistribution' = emitterDistribution
    /\ vBlockerDistribution' = blockerDistribution
    /\ vCircles' = <<>>
    /\ vCircle' = NoCircle
    /\ vPc' = "emitters"
    /\ UNCHANGED <<ovars, svars, evars, cvars, gvars, xvars, dvars>>

(* One pass of while (circle.emitters.length < numEmitters) that finds a    *)
(* free slot; the passes that draw a taken slot change nothing.             *)
VPlaceEmitter ==
    /\ vPc = "emitters"
    /\ Len(vCircle.emitters) < vEmitterDistribution[Len(vCircles) + 1]
    /\ VTaken # 0 .. 11
    /\ \E d \in {DrawNew(rng, VTaken)} :
           /\ vCircle' = [vCircle EXCEPT !.emitters = Append(@, d.v)]
           /\ rng' = d.r
    /\ UNCHANGED <<vPc, vLitEdges, vEmitterDistribution, vBlockerDistribution, vCircles>>
    /\ UNCHANGED <<ovars, svars, evars, cvars, gvars, xvars, dvars>>

VEmittersDone ==
    /\ vPc = "emitters"
    /\ Len(vCircle.emitters) >= vEmitterDistribution[Len(vCircles) + 1]
    /\ vPc' = "blockers"
    /\ UNCHANGED <<vLitEdges, vEmitterDistribution, vBlockerDistribution, vCircles, vCircle>>
    /\ UNCHANGED <<ovars, rng, svars, evars, cvars, gvars, xvars, dvars>>

(* One pass of while (circle.blockers.length < numBlockers) that finds a    *)
(* free slot.                                                               *)
VPlaceBlocker ==
    /\ vPc = "blockers"
    /\ Len(vCircle.blockers) < vBlockerDistribution[Len(vCircles) + 1]
    /\ VTaken # 0 .. 11
    /\ \E d \in {DrawNew(rng, VTaken)} :
           /\ vCircle' = [vCircle EXCEPT !.blockers = Append(@, d.v)]
           /\ rng' = d.r
    /\ UNCHANGED <<vPc, vLitEdges, vEmitterDistribution, vBlockerDistribution, vCircles>>
    /\ UNCHANGED <<ovars, svars, evars, cvars, gvars, xvars, dvars>>

(* circles.push(circle); after the third ring the chromosome is returned    *)
(* with its lit edges sorted.                                               *)
VCircleDone ==
    /\ vPc = "blockers"
    /\ Len(vCircle.blockers) >= vBlockerDistribution[Len(vCircles) + 1]
    /\ vCircles' = Append(vCircles, vCircle)
    /\ vCircle' = NoCircle
    /\ IF Len(vCircles) + 1 < 3
       THEN vPc' = "emitters" /\ vLitEdges' = vLitEdges
       ELSE vPc' = "created" /\ vLitEdges' = SortAscending(vLitEdges)
    /\ UNCHANGED <<vEmitterDistribution, vBlockerDistribution>>
    /\ UNCHANGED <<ovars, rng, svars, evars, cvars, gvars, xvars, dvars>>

(* A createRandomChromosome call with any outcome of its totals and of     *)
(* distributeElements.                                                      *)
VCreate ==
    /\ vPc = "ready"
    /\ \E difficulty \in Difficulties :
           LET config == EvoDifficultyConfig(difficulty)
           IN  \E totalEmitters \in config.emitterRange[1] .. config.emitterRange[2],
                  totalBlockers \in config.blockerRange[1] .. config.blockerRange[2] :
                   \E emitterDistribution \in Distributions(totalEmitters, 1),
                      blockerDistribution \in Distributions(totalBlockers, 0) :
                       VBegin(difficulty, totalEmitters, totalBlockers,
                              emitterDistribution, blockerDistribution)

VNext ==
    \/ VCreate
    \/ VPlaceEmitter
    \/ VEmittersDone
    \/ VPlaceBlocker
    \/ VCircleDone

----------------------------------------------------------------------------
(* Specifications.  Each one runs one component and keeps the others idle.  *)

EIdle ==
    /\ ePc = "idle"
    /\ eDifficulty = "medium"
    /\ eHeap = <<>>
    /\ ePopulation = <<>>
    /\ eNewPopulation = <<>>
    /\ eIndex = 0
    /\ eGeneration = 0
    /\ eBest = NoBest
    /\ eConvergence = 0
    /\ eCalls = 0
    /\ eResult = [returned |-> FALSE, thrown |-> FALSE]

OracleInit == OInit /\ rng = 0 /\ SIdle /\ EIdle /\ CIdle /\ GIdle /\ XIdle /\ DIdle /\ VIdle

SpecOracle == OracleInit /\ [][ONext]_vars

OIdle ==
    /\ oPuzzle = EmptyChromosome
    /\ oVerdict = NoVerdict
    /\ oPc = "idle"

EvoInit == OIdle /\ rng \in EvoSeeds /\ SIdle /\ EInit /\ CIdle /\ GIdle /\ XIdle /\ DIdle /\ VIdle

SpecEvo == EvoInit /\ [][ENext]_vars

(* Both generators used one after the other, as the test scripts do: the   *)
(* simplified generator first, then the evolutionary generator.             *)
GAInit == OIdle /\ rng \in SimpSeeds /\ SInit /\ EInit /\ CIdle /\ GIdle /\ XIdle /\ DIdle /\ VIdle

GANext ==
    \/ SNext
    \/ (sPc = "returned" /\ ENext)

SpecGA == GAInit /\ [][GANext]_vars

SimpInit == OIdle /\ rng \in SimpSeeds /\ SInit /\ EIdle /\ CIdle /\ GIdle /\ XIdle /\ DIdle /\ VIdle

SpecSimp == SimpInit /\ [][SNext]_vars

(* Several generatePuzzle calls on one SimplifiedEvolutionaryGenerator. *)
SCallsNext ==
    \/ SNext
    \/ \E difficulty \in Difficulties : SGenerateAgain(difficulty)
SpecSimpCalls == SimpInit /\ [][SCallsNext]_vars

SimpOpsInit == OIdle /\ rng \in OpsSeeds /\ OpsInit /\ EIdle /\ CIdle /\ GIdle /\ XIdle /\ DIdle /\ VIdle

SpecSimpOps == SimpOpsInit /\ [][OpsNext]_vars

ConsInit == OIdle /\ rng \in ConsSeeds /\ SIdle /\ EIdle /\ CInit /\ GIdle /\ XIdle /\ DIdle /\ VIdle

SpecCons == ConsInit /\ [][CNext]_vars

TopUpSpecInit == OIdle /\ rng \in TopUpSeeds /\ SIdle /\ EIdle /\ CIdle /\ TopUpInit /\ XIdle /\ DIdle /\ VIdle
SpecTopUp == TopUpSpecInit /\ [][TNext]_vars

GenInit == OIdle /\ rng \in GenSeeds /\ SIdle /\ EIdle /\ CIdle /\ GInit /\ XIdle /\ DIdle /\ VIdle
SpecGen == GenInit /\ [][GNext]_vars

SpaceInit == OIdle /\ rng = 0 /\ SIdle /\ EIdle /\ CIdle /\ GIdle /\ XInit /\ DIdle /\ VIdle

SpecSpace == SpaceInit /\ [][XNext]_vars

AnalyzerInit == OIdle /\ rng = 0 /\ SIdle /\ EIdle /\ CIdle /\ GIdle /\ XIdle /\ DInit /\ VIdle

SpecAnalyzer == AnalyzerInit /\ [][DNext]_vars

PlaceInit == OIdle /\ rng \in PlaceSeeds /\ SIdle /\ EIdle /\ CIdle /\ GIdle /\ XIdle /\ DIdle /\ VInit

SpecPlace == PlaceInit /\ [][VNext]_vars

----------------------------------------------------------------------------
(* Claims about the oracles.                                                *)

(* The beam of emitter number k ends on polygon edge `edge`: the edge lies  *)
(* in front of the beam, nearer than every considered blocker and every     *)
(* other emitter the beam meets.                                            *)
BeamEndsOnEdge(k, emitters, blockers, edge) ==
    LET em == emitters[k]
        tE == EdgeHitT(em.radius, em.theta, PzEdgeMid(edge))
    IN  /\ tE < INFINITY
        /\ \A b \in 1 .. Len(blockers) :
               PzConsidered(blockers[b], em) =>
                   tE < DiscHitT(em.radius, em.theta, blockers[b].radius, blockers[b].theta, 144)
        /\ \A o \in 1 .. Len(emitters) :
               o # k => tE < DiscHitT(em.radius, em.theta, emitters[o].radius, emitters[o].theta, 169)

SomeRotationLightsAll(puzzle) ==
    \E r0 \in 0 .. 11, r1 \in 0 .. 11, r2 \in 0 .. 11 :
        \E emitters \in {PzEmitters(puzzle, <<r0 * 30, r1 * 30, r2 * 30>>)},
           blockers \in {PzBlockers(puzzle, <<r0 * 30, r1 * 30, r2 * 30>>)} :
            \A l \in 1 .. Len(puzzle.litEdges) :
                \E k \in 1 .. Len(emitters) :
                    BeamEndsOnEdge(k, emitters, blockers, puzzle.litEdges[l])

(* C1: isPuzzleSolvable of puzzle.js returns true exactly when one of the   *)
(* 1728 rotation vectors makes every lit edge the nearest obstacle of some  *)
(* emitter's beam, and false exactly when none does.                        *)
C1_SolvableIffSomeRotation ==
    oPc = "done" => (oVerdict.pz <=> SomeRotationLightsAll(PzPuzzleOf(oPuzzle)))

(* A puzzle with a lit edge, an emitter and a blocker, reported solvable. *)
C1_Witness ==
    /\ oPc = "done"
    /\ Len(oPuzzle.litEdges) >= 1
    /\ EmitterCount(oPuzzle) >= 1
    /\ BlockerCount(oPuzzle) >= 1
    /\ oVerdict.pz

(* The puzzle has one emitter in all, and a blocker on that emitter's ring  *)
(* at the slot six further.                                                 *)
OnlyEmitterOpposed(ch) ==
    /\ EmitterCount(ch) = 1
    /\ \E c \in 1 .. 3 :
        /\ Len(ch.circles[c].emitters) = 1
        /\ Includes(ch.circles[c].blockers, (ch.circles[c].emitters[1] + 6) % 12)

(* C2: in both physics oracles a puzzle with a lit edge whose only emitter  *)
(* has a blocker at the opposite slot of its own ring is reported           *)
(* unsolvable, whatever the emitter's slot.                                 *)
C2_OpposedEmitterUnsolvable ==
    (oPc = "done" /\ Len(oPuzzle.litEdges) > 0 /\ OnlyEmitterOpposed(oPuzzle))
        => (~oVerdict.pz /\ ~oVerdict.simp)

(* C9: the brute-force check of EvolutionaryPuzzleGenerator reports every   *)
(* chromosome with one lit edge, no blocker and at least one emitter as     *)
(* solvable.                                                                *)
C9_SingleEdgeSolvable ==
    (oPc = "done" /\ Len(oPuzzle.litEdges) = 1 /\ BlockerCount(oPuzzle) = 0
        /\ EmitterCount(oPuzzle) >= 1)
        => oVerdict.evo

----------------------------------------------------------------------------
(* Claims about SimplifiedEvolutionaryGenerator.                            *)

C10_LitCountInPresetRange ==
    sResult.returned =>
        LET range == SimpDifficultyConfig(sDifficulty).litEdges
        IN  /\ range[1] <= Len(sResult.puzzle.litEdges)
            /\ Len(sResult.puzzle.litEdges) <= range[2]

----------------------------------------------------------------------------
(* Claims about EvolutionaryPuzzleGenerator.                                *)

(* C5: every generatePuzzle call on one generator runs at least one         *)
(* generation and returns a puzzle with metadata; none throws.              *)
C5_EveryCallReturns ==
    /\ ~eResult.thrown
    /\ eResult.returned => eResult.metadata.generations >= 1

(* The arrays of a puzzle returned by EvolutionaryPuzzleGenerator. *)
EvoPuzzleToChromosome(puzzle) ==
    [litEdges |-> puzzle.litEdges,
     circles |-> [i \in 1 .. 3 |-> [emitters |-> puzzle.circles[i].lasers,
                                    blockers |-> puzzle.circles[i].blockers]]]

(* C7: metadata.fitness of a result of generatePuzzle is the fitness that   *)
(* calculateFitness assigns to the lit edges and rings of the returned      *)
(* puzzle.                                                                  *)
C7_FitnessIsOfReturnedPuzzle ==
    eResult.returned =>
        eResult.metadata.fitness
            = calculateFitness(EvoPuzzleToChromosome(eResult.puzzle),
                               EvoDifficultyConfig(eDifficulty))

----------------------------------------------------------------------------
(* Claims about both generators.                                            *)

(* No slot of the ring holds two objects. *)
NoSlotCollision(circle) ==
    /\ SeqToSet(circle.emitters) \cap SeqToSet(circle.blockers) = {}
    /\ Cardinality(SeqToSet(circle.emitters)) = Len(circle.emitters)
    /\ Cardinality(SeqToSet(circle.blockers)) = Len(circle.blockers)

(* The chromosomes of the populations of both generators. *)
SimpChromosomes ==
    SeqToSet(sPopulation) \cup SeqToSet(sNewPopulation)

EvoChromosomes ==
    {eHeap[ind.body] : ind \in SeqToSet(ePopulation) \cup SeqToSet(eNewPopulation)}
        \cup (IF eBest.null THEN {} ELSE {eHeap[eBest.body]})

(* The rings of the puzzles returned so far, as records with the fields of  *)
(* a chromosome ring.                                                       *)
ReturnedCircles ==
    (IF sResult.returned
     THEN {[emitters |-> sResult.puzzle.circles[i].lasers,
            blockers |-> sResult.puzzle.circles[i].blockers] : i \in 1 .. 3}
     ELSE {})
    \cup
    (IF eResult.returned
     THEN {[emitters |-> eResult.puzzle.circles[i].lasers,
            blockers |-> eResult.puzzle.circles[i].blockers] : i \in 1 .. 3}
     ELSE {})

(* C3: in both generators every ring of every chromosome of the population  *)
(* and of the returned puzzle has each slot occupied at most once: no slot  *)
(* holds an emitter and a blocker, none appears twice among the emitters or *)
(* among the blockers.                                                      *)
C3_NoSlotCollision ==
    /\ \A ch \in SimpChromosomes \cup EvoChromosomes :
           \A i \in 1 .. 3 : NoSlotCollision(ch.circles[i])
    /\ \A circle \in ReturnedCircles : NoSlotCollision(circle)

(* Both generators have returned a puzzle with blockers after evolving at   *)
(* least one generation.                                                    *)
C3_Witness ==
    /\ sResult.returned /\ sResult.metadata.generations >= 1
    /\ eResult.returned /\ eResult.metadata.generations >= 1
    /\ \E i \in 1 .. 3 : Len(sResult.puzzle.circles[i].blockers) >= 1
    /\ \E i \in 1 .. 3 : Len(eResult.puzzle.circles[i].blockers) >= 1

(* C4: in both generators every chromosome that enters fitness evaluation,  *)
(* and every returned puzzle, has at least one emitter on each ring.        *)
C4_EveryRingHasEmitter ==
    /\ sPc = "evaluate" =>
           \A ch \in SeqToSet(sPopulation) : \A i \in 1 .. 3 : Len(ch.circles[i].emitters) >= 1
    /\ ePc = "evaluate" =>
           \A ind \in SeqToSet(ePopulation) :
               \A i \in 1 .. 3 : Len(eHeap[ind.body].circles[i].emitters) >= 1
    /\ \A circle \in ReturnedCircles : Len(circle.emitters) >= 1

(* The evolutionary generator evaluates an evolved generation after the     *)
(* simplified generator has returned an evolved puzzle.                     *)
C4_Witness ==
    /\ sResult.returned /\ sResult.metadata.generations >= 1
    /\ ePc = "evaluate" /\ eGeneration >= 1 /\ eIndex > Len(ePopulation)

----------------------------------------------------------------------------
(* Claim C6: generateConstraintBasedPuzzle terminates for every pair        *)
(* (minLit, maxLit) and every difficulty string.  The only loop of the call *)
(* whose exit depends on its arguments is the while loop of                 *)
(* generateSimplifiedConstraintPuzzle; it ends only by lengthening litEdges *)
(* with an edge the array does not hold.  So the call terminates only if,   *)
(* in every pass of that loop, at least one of the 12 edges is still absent *)
(* from litEdges.  Where this fails every later draw leaves litEdges as it  *)
(* is and the call never returns.                                           *)
C6_SelectionLoopCanEnd ==
    (cPc = "selecting" /\ cArgs[3] # "easy" /\ Len(cLitEdges) < cNumLit)
        => \E edge \in 0 .. SIDES - 1 : ~Includes(cLitEdges, edge)

----------------------------------------------------------------------------
(* Claim C11: for 1 <= minLit <= maxLit <= 12 and a difficulty among easy,  *)
(* medium and hard, generateConstraintBasedPuzzle returns a puzzle whose    *)
(* lit edges are distinct integers of 0..11, between minLit and maxLit in   *)
(* number, with exactly 3 rings of radii 50, 90 and 130, each with a lasers *)
(* and a blockers array, and with at least one emitter in total.            *)
C11_ValidCall ==
    /\ cResult.returned
    /\ 1 <= cArgs[1] /\ cArgs[1] <= cArgs[2] /\ cArgs[2] <= 12
    /\ cArgs[3] \in {"easy", "medium", "hard"}

----------------------------------------------------------------------------
(* Claim C12: in every puzzle of generatePuzzle of puzzle.js, during and    *)
(* after step 3, no blocker of a ring is at the slot of an emitter of that  *)
(* ring nor 6 slots away from it.                                           *)
BlockersClearOfEmitters(circle) ==
    \A b \in 1 .. Len(circle.blockers) : \A e \in 1 .. Len(circle.lasers) :
        LET blockerPos == angleToPosition(circle.blockers[b])
            emitterPos == angleToPosition(circle.lasers[e])
        IN  blockerPos # emitterPos /\ blockerPos # (emitterPos + 6) % 12

C12_BlockersClearOfEmitters ==
    (gCall.fn = "puzzle.js" /\ gPc \in {"placing", "returned"}) =>
        \A c \in 1 .. 3 : BlockersClearOfEmitters(gPuzzle.circles[c])

(* A returned puzzle of puzzle.js with more than 3 lit edges in which the   *)
(* first emitter of every ring is aligned with a lit edge given to it.      *)
C12_Witness ==
    /\ gCall.fn = "puzzle.js" /\ gPc = "returned"
    /\ Len(gPuzzle.litEdges) > 3
    /\ \A c \in 1 .. 3 : \E i \in 1 .. Len(gPuzzle.litEdges) :
           /\ (i - 1) % 3 = c - 1
           /\ gPuzzle.circles[c].lasers[1] = positionToAngle(gPuzzle.litEdges[i])

(* Claim C13: every puzzle returned by generatePuzzle of App.jsx has at     *)
(* least as many emitters, over the 3 rings, as lit edges.                  *)
C13_EmittersCoverLitEdges ==
    (gCall.fn = "App.jsx" /\ gPc = "returned") =>
        TotalEmitters(gPuzzle.circles) >= Len(gPuzzle.litEdges)

(* A returned puzzle of App.jsx with more lit edges than step 2 can give    *)
(* emitters (9), so that the emitter loop has run.                          *)
C13_Witness ==
    /\ gCall.fn = "App.jsx" /\ gPc = "returned"
    /\ Len(gPuzzle.litEdges) > 9

(* Claim C14: in every puzzle returned by generatePuzzle of App.jsx, every  *)
(* lit edge e has, on some ring, an emitter at the angle 30 e + 15.         *)
C14_EveryLitEdgeHasAlignedEmitter ==
    (gCall.fn = "App.jsx" /\ gPc = "returned") =>
        \A i \in 1 .. Len(gPuzzle.litEdges) : \E c \in 1 .. 3 :
            Includes(gPuzzle.circles[c].lasers, 30 * gPuzzle.litEdges[i] + 15)

----------------------------------------------------------------------------
(* Claim C15: generatePuzzle of SimplifiedEvolutionaryGenerator empties     *)
(* solvabilityCache before it creates the initial population: while a call  *)
(* runs, the cache holds no entry stored during an earlier call, so no      *)
(* lookup of isChromosomeSolvable returns one.                              *)
C15_NoEntryOfEarlierCall ==
    sPc \in {"evaluate", "evolve", "finish"} =>
        \A key \in DOMAIN sCache : sCache[key].call = sCalls

(* The second call is about to look up a chromosome the cache holds. *)
C15_Witness ==
    /\ sCalls = 2
    /\ sPc = "evaluate"
    /\ sIndex <= Len(sPopulation)
    /\ CacheKey(sPopulation[sIndex]) \in DOMAIN sCache

(* Claim C18: calculateFitness of SimplifiedEvolutionaryGenerator sets      *)
(* fitness = 0.6 s + 0.2 distribution + 0.1 variety + 0.1 aesthetic, with   *)
(* s = 1 for a solvable chromosome and 0 otherwise.  The chromosome at      *)
(* sIndex - 1 is the one evaluatePopulation has just scored; its breakdown  *)
(* holds the three scores of its lit edges and rings.                       *)
C18_FitnessIsWeightedSum ==
    (sPc = "evaluate" /\ sIndex > 1) =>
        LET ch == sPopulation[sIndex - 1]
            s == IF ch.solvable THEN FitnessScale ELSE 0
        IN  ch.fitness = (6 * s) \div 10 + (2 * SimpDistributionScore(ch)) \div 10
                         + SimpVarietyScore(ch) \div 10 + SimpAestheticScore(ch) \div 10

(* Claim C20: the elites are carried over verbatim: producing an offspring  *)
(* in evolvePopulation of EvolutionaryPuzzleGenerator changes the lit edges *)
(* and rings of none of the elites already in the new population.           *)
C20_OffspringLeavesElites ==
    [][EOffspring =>
          \A i \in 1 .. EvoEliteCount :
              eHeap'[eNewPopulation[i].body] = eHeap[eNewPopulation[i].body]]_vars

(* Claim C16: over any sequence of calculateSolutionSpace, clearCache and   *)
(* resetPerformanceStats calls, calculateSolutionSpace builds a new         *)
(* solution space, counts one miss and caches the object exactly when the   *)
(* cache is empty, and otherwise counts one hit and returns the cached      *)
(* object; only clearCache empties the cache; and cacheHits + cacheMisses   *)
(* equals solutionSpaceCalculations in every state.                         *)
C16_Call ==
    calculateSolutionSpace =>
        IF solutionSpaceCache = <<>>
        THEN /\ xBuilt' = xBuilt + 1
             /\ xResult'.id = xBuilt'
             /\ solutionSpaceCache' = <<xResult'>>
             /\ performanceStats'.cacheMisses = performanceStats.cacheMisses + 1
             /\ performanceStats'.cacheHits = performanceStats.cacheHits
        ELSE /\ xBuilt' = xBuilt
             /\ xResult' = solutionSpaceCache[1]
             /\ solutionSpaceCache' = solutionSpaceCache
             /\ performanceStats'.cacheHits = performanceStats.cacheHits + 1
             /\ performanceStats'.cacheMisses = performanceStats.cacheMisses

C16_OnlyClearEmpties ==
    (solutionSpaceCache # <<>> /\ solutionSpaceCache' = <<>>) => clearCache

C16_MissExactlyWhenCacheEmpty ==
    /\ [](performanceStats.cacheHits + performanceStats.cacheMisses
              = performanceStats.solutionSpaceCalculations)
    /\ [][C16_Call /\ C16_OnlyClearEmpties]_vars

(* Two rebuilds (one after a clearCache) and a hit since the last reset. *)
C16_Witness ==
    /\ performanceStats.cacheMisses >= 2
    /\ performanceStats.cacheHits >= 1
    /\ xResult.id = 2
    /\ solutionSpaceCache = <<xResult>>

(* Claim C17: the solution space calculateSolutionSpace returns records     *)
(* each of the 3 x 12 x 12 (circle, emitter angle, rotation) triples, in    *)
(* emitterToEdge and in edgeToEmitters, under the edge its beam hits, so    *)
(* edgeToEmitters is non-empty for each of the 12 edges.                    *)
C17_EveryTripleRecorded ==
    xResult # NoSpace =>
        /\ \A n \in 1 .. NumTriples :
               LET t == Triple(n)
                   edge == EdgeIndexOf(t)
               IN  /\ t \in SeqToSet(xResult.edgeToEmitters[edge])
                   /\ t.rotation \in
                          SeqToSet(xResult.emitterToEdge[<<t.circle, t.angle, edge>>])
        /\ \A edge \in 0 .. SIDES - 1 : xResult.edgeToEmitters[edge] # <<>>

(* Claim C19: for two puzzles with the same lit edges, the second obtained  *)
(* from the first by adding emitters and/or blockers at free slots of its   *)
(* rings, the overallDifficulty of the second is at least that of the       *)
(* first.                                                                   *)
C19_DenserIsNotEasier ==
    dPc = "compared" => RatLeq(dSparse.overallDifficulty, dDense.overallDifficulty)

(* Claim C22: generatePuzzle of SimplifiedEvolutionaryGenerator runs at     *)
(* most maxGenerations generations and leaves the loop early only when the  *)
(* top-ranked chromosome is solvable with fitness > 0.7: a result whose     *)
(* metadata.generations is below maxGenerations has metadata.solvable true  *)
(* and metadata.fitness > 0.7.                                              *)
C22_EarlyExitMeansGoodPuzzle ==
    /\ sGeneration <= SimpMaxGenerations
    /\ (sPc = "finish" /\ sGeneration < SimpMaxGenerations) =>
           /\ sPopulation[1].solvable
           /\ 10 * sPopulation[1].fitness > 7 * FitnessScale
    /\ (sPc = "returned" /\ sResult.metadata.generations < SimpMaxGenerations) =>
           /\ sResult.metadata.solvable
           /\ 10 * sResult.metadata.fitness > 7 * FitnessScale

(* A call that returned early, after at least one evolved generation. *)
C22_Witness ==
    /\ sPc = "returned"
    /\ sResult.metadata.generations > 0
    /\ sResult.metadata.generations < SimpMaxGenerations

(* Claim C26: in generatePuzzle of SimplifiedEvolutionaryGenerator the      *)
(* fitness of the top-ranked chromosome never decreases from one evaluated  *)
(* generation to the next, and the fitness of the returned chromosome is    *)
(* the largest fitness assigned during the call.  bestFitness is the        *)
(* largest top-ranked fitness of the generations evaluated so far, and no   *)
(* chromosome of a ranked population has a larger one.                      *)
C26_Ranked ==
    sPc \in {"evolve", "finish", "returned"} =>
        \A i \in 1 .. Len(sPopulation) : sPopulation[i].fitness <= sBestFitness

C26_Returned ==
    sPc = "returned" => sResult.metadata.fitness = sBestFitness

C26_TopNeverDecreases ==
    SSelect => sPopulation'[1].fitness >= sBestFitness

C26_BestFitnessIsMonotone ==
    /\ [](C26_Ranked /\ C26_Returned)
    /\ [][C26_TopNeverDecreases]_vars

(* A call that ran all its generations, improved on the first one and       *)
(* returned from a population whose offspring were never evaluated.         *)
C26_Witness ==
    /\ sPc = "returned"
    /\ sResult.metadata.generations = SimpMaxGenerations
    /\ \E i \in 1 .. Len(sPopulation) : sPopulation[i].fitness = 0
    /\ sResult.metadata.fitness > 0

(* Claim C27: in SimplifiedEvolutionaryGenerator, after any sequence of     *)
(* createRandomChromosome, crossover and mutate steps every ring of every   *)
(* chromosome holds at most 6 emitters and at most 4 blockers, on distinct  *)
(* slots, so at least 2 of its 12 slots are free for a resampling loop.     *)
RingWithinLimits(circle) ==
    /\ Len(circle.emitters) <= 6
    /\ Len(circle.blockers) <= 4
    /\ Cardinality(SeqToSet(circle.emitters) \cup SeqToSet(circle.blockers))
           = Len(circle.emitters) + Len(circle.blockers)

C27_RingsKeepFreeSlots ==
    \A i \in 1 .. Len(sPopulation) : \A c \in 1 .. 3 :
        RingWithinLimits(sPopulation[i].circles[c])

(* A ring that holds 6 emitters, or 4 blockers, after crossover or mutate    *)
(* steps, next to a chromosome that mutate has changed.                     *)
C27_Witness ==
    /\ sGeneration = MaxOps
    /\ \E i \in 1 .. Len(sPopulation) : \E c \in 1 .. 3 :
           \/ Len(sPopulation[i].circles[c].emitters) = 6
           \/ Len(sPopulation[i].circles[c].blockers) = 4

(* Claim C21: generatePuzzle of EvolutionaryPuzzleGenerator terminates for  *)
(* every preset: every placement loop always has a free slot to find, the   *)
(* emitters and blockers requested for one ring never needing more than     *)
(* the 12 slots.  Here: while createRandomChromosome still has an emitter   *)
(* or a blocker to place on a ring, the ring has a free slot.               *)
C21_PlacementFindsFreeSlot ==
    /\ (vPc = "emitters" /\ Len(vCircle.emitters) < vEmitterDistribution[Len(vCircles) + 1])
           => VTaken # 0 .. 11
    /\ (vPc = "blockers" /\ Len(vCircle.blockers) < vBlockerDistribution[Len(vCircles) + 1])
           => VTaken # 0 .. 11

(* Claim C23: in EvolutionaryPuzzleGenerator every chromosome that enters   *)
(* fitness evaluation, in any generation (initial population, elites,       *)
(* offspring with or without crossover, mutated and repaired), has distinct *)
(* lit edges in 0..11 whose count lies within config.litEdgeRange.          *)
LitEdgesWithinRange(lit, config) ==
    /\ \A i \in 1 .. Len(lit) : lit[i] \in 0 .. 11
    /\ Cardinality(SeqToSet(lit)) = Len(lit)
    /\ config.litEdgeRange[1] <= Len(lit)
    /\ Len(lit) <= config.litEdgeRange[2]

C23_EvaluatedLitEdgesValid ==
    ePc = "evaluate" =>
        \A i \in 1 .. Len(ePopulation) :
            LitEdgesWithinRange(eHeap[ePopulation[i].body].litEdges,
                                EvoDifficultyConfig(eDifficulty))

(* A later generation under evaluation in which an elite and an offspring   *)
(* share their arrays and the lit edges of some chromosome differ in number *)
(* from those of another.                                                   *)
C23_Witness ==
    /\ ePc = "evaluate"
    /\ eGeneration >= 2
    /\ eIndex <= Len(ePopulation)
    /\ \E i, j \in 1 .. Len(ePopulation) :
           i # j /\ ePopulation[i].body = ePopulation[j].body
    /\ \E i, j \in 1 .. Len(ePopulation) :
           Len(eHeap[ePopulation[i].body].litEdges)
               # Len(eHeap[ePopulation[j].body].litEdges)

(* Claim C24: the constraint-based generators never place a blocker         *)
(* directly opposite (180 degrees from) an emitter of the same ring: in     *)
(* every puzzle returned by generateConstraintBasedPuzzle no ring holds a   *)
(* blocker at the angle opposite to one of its emitters.                    *)
BlockerOppositeEmitter(circle) ==
    \E b \in 1 .. Len(circle.blockers) : \E k \in 1 .. Len(circle.lasers) :
        circle.blockers[b] = (circle.lasers[k] + 180) % 360

C24_NoBlockerOppositeEmitter ==
    cPc = "returned" =>
        \A c \in 1 .. 3 : ~BlockerOppositeEmitter(cResult.puzzle.circles[c])

(* Claim C28: for 1 <= minLit <= maxLit <= 12, generateConstraintBasedPuzzle *)
(* always returns the enhanced puzzle: validateEnhancedPuzzle accepts every *)
(* puzzle generateEnhancedConstraintPuzzle builds, so the simplified and    *)
(* the fallback generators are never reached.                               *)
ValidLitRange(args) == 1 <= args[1] /\ args[1] <= args[2] /\ args[2] <= 12

C29_AllEdgesEquallyDifficult ==
    cPc = "returned" =>
        /\ \A e \in 0 .. SIDES - 1 : getEdgeDifficulty(e) = getEdgeDifficulty(0)
        /\ \A d \in {"easy", "hard"} : \A j \in 1 .. SIDES :
               EdgeWeights(rng, d).v[j] = EdgeWeights(rng, d).v[1]

(* A puzzle returned for 'easy' or 'hard', its lit edges selected with the  *)
(* weights of the analyzer, every edge having several solutions.            *)
C29_Witness ==
    /\ cPc = "returned"
    /\ cArgs[3] \in {"easy", "hard"}
    /\ ValidLitRange(cArgs)
    /\ getEdgeDifficulty(0).solutionCount > 1
    /\ getEdgeDifficulty(11).minRotations = 0

(* Claim C30: App.jsx generatePuzzle with 1 <= minLit <= maxLit <= 12:      *)
(* whenever the loop while (totalEmitters < numLit) picks a ring, that ring *)
(* still has a free angle, so the inner do-while can end; and the initial   *)
(* placement of 1-3 emitters and 1-2 blockers per ring never needs more     *)
(* than the 12 angles of a ring.                                            *)
C30_PickedRingHasFreeAngle ==
    gPc = "topup" =>
        /\ \A idx \in 1 .. 3 :
               LET circle == gPuzzle.circles[idx]
               IN  /\ Cardinality(AppUsedSlots(circle))
                          = Len(circle.lasers) + Len(circle.blockers)
                   /\ AppUsedSlots(circle) \subseteq 0 .. 11
        /\ NeedsEmitter(gIndex, Len(gPuzzle.litEdges)) =>
               \A idx \in 1 .. 3 : AppUsedSlots(gPuzzle.circles[idx]) # 0 .. 11

(* The loop about to pick a ring when one ring has a single free angle left. *)
C30_Witness ==
    /\ gPc = "topup"
    /\ NeedsEmitter(gIndex, Len(gPuzzle.litEdges))
    /\ \E idx \in 1 .. 3 : Cardinality(AppUsedSlots(gPuzzle.circles[idx])) = 11

(* Claim C25: isPuzzleSolvable(puzzle, points) of App.jsx is true exactly   *)
(* when some rotation state of the board (multiples of 30 degrees) makes    *)
(* puzzleSolved true: the solver's occlusion test and getBeamHit decide the *)
(* same nearest obstacle.                                                   *)
C25_SolverAgreesWithBoard ==
    oPc = "done" => (oVerdict.app <=> oVerdict.board)

====
